---------------------------- MODULE Spec2Model ----------------------------
(***************************************************************************)
(* Model of the shell-like command line lexer of src/cmd/cmd_tokens.c:     *)
(* cmd_Tokenize (one action per iteration of its scanning loop),           *)
(* cmd_Split, cmd_FreeSplit, and the serializer cmd_Join.                  *)
(*                                                                         *)
(* A C string is modelled as the sequence of its characters before the     *)
(* terminating NUL; a character is a one-character TLA+ string.  A pointer *)
(* that may be NULL is a sequence of length 0 (NULL) or 1 (the pointee).   *)
(***************************************************************************)
EXTENDS Integers, Sequences, FiniteSets, TLC

(***************************************************************************)
(* Characters.                                                             *)
(***************************************************************************)
NUL == "NUL"
SP  == " "
TAB == "\t"
CR  == "\r"
LF  == "\n"
SQ  == "'"
DQ  == "\""
BS  == "\\"

\* The four characters the lexer's switch statements treat as whitespace.
Whitespace == {SP, TAB, CR, LF}

(***************************************************************************)
(* Return codes.                                                           *)
(***************************************************************************)
SUCCESS           == "0"
ENOMEM            == "ENOMEM"
CMD_BADFORMAT     == "CMD_BADFORMAT"
CMD_INTERNALERROR == "CMD_INTERNALERROR"
\* The non-zero code a caller-supplied emit callback returns when it fails.
EMIT_FAILED       == "EMIT_FAILED"

NULLPTR == <<>>
Ptr(x)  == <<x>>

(***************************************************************************)
(* Bounds of the model.                                                    *)
(***************************************************************************)
\* Longest input line given directly to cmd_Tokenize / cmd_Split.
MaxLen == 4
\* Longest input line of a run in which an allocation or the callback fails.
MaxFaultLen == 3
\* Latest allocation (or callback invocation) of a run that may fail.
MaxFaultAt == 4
\* Bytes of the argument strings given to cmd_Join, terminators included.
MaxArgBytes == 4

\* Longest stream given to afs_getline, in bytes.
MaxStream == 6
\* Longest stream of a run in which an allocation or a read fails.
MaxFaultStream == 4
\* Largest buffer the caller passes to the first call of afs_getline.
MaxBufInit == 3
\* Latest allocation (or fgetc) of an afs_getline run that may fail.
MaxGlFaultAt == 3
\* BUFSIZ of <stdio.h>, the size of the buffer afs_getdelim allocates,
\* scaled down so that lines outgrow the buffer.
BUFSIZ == 4

\* Most lines of a generated BosConfig file made of settings and stray lines.
MaxGlobalLines == 2
\* Most parm lines of a generated bnode block (bnode_Create takes five).
MaxParmLines == 6
\* Latest allocation of a ReadBozoFile run that may fail.
MaxBzFaultAt == 5
\* Most bnodes of a run that starts with WriteBozoFile.
MaxWriteBnodes == 2
\* Last allocation that fails in a run of cmd_Tokenize with a long line.
MaxGrowFaultAt == 3

TOKEN_BUFFER_INITIAL_SIZE == 128

\* Width of size_t in the model: buffer sizes are computed modulo 2^SizeBits.
SizeBits == 9
SizeMod == 2 ^ SizeBits

(***************************************************************************)
(* Inputs.                                                                 *)
(***************************************************************************)
\* Characters of the lines given to the lexer: one ordinary character, the
\* four whitespace characters, both quotes and the backslash.
Alphabet == {"a", SP, TAB, CR, LF, SQ, DQ, BS}

\* Characters of the argument strings given to cmd_Join.
JoinAlphabet == {"a", ",", "!", SP, TAB, LF, SQ, DQ, BS}

SeqsUpTo(S, n) == UNION {[1..k -> S] : k \in 0..n}

Texts == SeqsUpTo(Alphabet, MaxLen)

FaultTexts == SeqsUpTo(Alphabet, MaxFaultLen)

\* An argument vector laid out as a block of NUL-terminated strings.
ArgBlocks ==
    {b \in SeqsUpTo(JoinAlphabet \cup {NUL}, MaxArgBytes) :
        b = <<>> \/ b[Len(b)] = NUL}

RECURSIVE ArgvOf(_)
\* The list of strings of a block of NUL-terminated strings.
ArgvOf(b) ==
    IF b = <<>> THEN <<>>
    ELSE LET n == CHOOSE i \in 1..Len(b) :
                      b[i] = NUL /\ \A j \in 1..(i-1) : b[j] # NUL
         IN <<SubSeq(b, 1, n - 1)>> \o ArgvOf(SubSeq(b, n + 1, Len(b)))

ArgLists == {ArgvOf(b) : b \in ArgBlocks}


(***************************************************************************)
(* The expandable token buffer (struct token_buffer).  token is the string *)
(* from token_start up to token_end; buffer_size is the allocated size.    *)
(***************************************************************************)
init_token_buffer == [token |-> <<>>, buffer_size |-> TOKEN_BUFFER_INITIAL_SIZE]

clear_token_buffer(b) == [b EXCEPT !.token = <<>>]

\* Whether accept_char has to reallocate before it stores a character.
NeedsGrowth(b) == Len(b.token) + 1 = b.buffer_size

\* The doubled size, in size_t arithmetic.
NewSize(b) == (2 * b.buffer_size) % SizeMod

\* accept_char: code is 0 or ENOMEM, tb the buffer afterwards.  realloc_ok
\* tells whether the reallocation, if one is needed, succeeds.
accept_char(b, ch, realloc_ok) ==
    IF NeedsGrowth(b)
    THEN IF NewSize(b) <= b.buffer_size
         THEN [code |-> ENOMEM, tb |-> b]
         ELSE IF ~realloc_ok
              THEN [code |-> ENOMEM, tb |-> b]
              ELSE [code |-> SUCCESS,
                    tb |-> [token |-> Append(b.token, ch),
                            buffer_size |-> NewSize(b)]]
    ELSE [code |-> SUCCESS, tb |-> [b EXCEPT !.token = Append(b.token, ch)]]

(***************************************************************************)
(* cmd_Join, the serializer.                                               *)
(***************************************************************************)
\* Characters an argument may hold without being quoted: the alphanumerics
\* and a conservative list of punctuation characters.
Alphanumerics ==
    {"a", "b", "c", "d", "e", "f", "g", "h", "i", "j", "k", "l",
     "m", "n", "o", "p", "q", "r", "s", "t", "u", "v", "w", "x",
     "y", "z", "A", "B", "C", "D", "E", "F", "G", "H", "I", "J",
     "K", "L", "M", "N", "O", "P", "Q", "R", "S", "T", "U", "V",
     "W", "X", "Y", "Z", "0", "1", "2", "3", "4", "5", "6", "7",
     "8", "9"}

SafePunctuation == {",", ".", "-", "_", "/", ":", "@"}

SafeChars == Alphanumerics \cup SafePunctuation

\* Only the empty argument and arguments with whitespace are quoted.
NeedsQuotes_WhitespaceOnly(arg) ==
    arg = <<>> \/ \E i \in 1..Len(arg) : arg[i] \in Whitespace

NeedsQuotes(arg) ==
    arg = <<>> \/ \E i \in 1..Len(arg) : arg[i] \notin SafeChars

RECURSIVE QuoteBody_BackslashQuote(_)
\* An embedded single quote is written as a backslash and the quote.
QuoteBody_BackslashQuote(arg) ==
    IF arg = <<>> THEN <<>>
    ELSE (IF Head(arg) = SQ THEN <<BS, SQ>> ELSE <<Head(arg)>>)
         \o QuoteBody_BackslashQuote(Tail(arg))

RECURSIVE QuoteBody(_)
\* The characters of arg as written between the enclosing single quotes.
QuoteBody(arg) ==
    IF arg = <<>> THEN <<>>
    ELSE (IF Head(arg) = SQ THEN <<SQ, DQ, SQ, DQ, SQ>> ELSE <<Head(arg)>>)
         \o QuoteBody(Tail(arg))

JoinArg(arg) ==
    IF NeedsQuotes(arg) THEN <<SQ>> \o QuoteBody(arg) \o <<SQ>> ELSE arg

RECURSIVE JoinArgs_TrailingSpace(_)
\* A space is written after every argument, the last one included.
JoinArgs_TrailingSpace(argv) ==
    IF argv = <<>> THEN <<>>
    ELSE JoinArg(argv[1]) \o <<SP>> \o JoinArgs_TrailingSpace(Tail(argv))

RECURSIVE JoinArgs(_)
\* The line cmd_Join writes for the argument list argv.
JoinArgs(argv) ==
    IF argv = <<>> THEN <<>>
    ELSE IF Len(argv) = 1 THEN JoinArg(argv[1])
    ELSE JoinArg(argv[1]) \o <<SP>> \o JoinArgs(Tail(argv))

(***************************************************************************)
(* State.                                                                  *)
(***************************************************************************)
VARIABLES
    entry,    \* the function the caller runs: "cmd_Tokenize", "cmd_Split", "cmd_Join"
    argv_in,  \* the argument list given to cmd_Join
    text,     \* the input line of cmd_Tokenize / cmd_Split
    emit,     \* the emit callback: "NULL", "callback" (the caller's) or "append_token"
    fault,    \* the failure of this run: [kind, at]
    pc,       \* control location
    state,    \* enum token_state of cmd_Tokenize
    tp,       \* index in text of the character the loop reads next
    tb,       \* the token buffer: NULLPTR before init and after free
    code,     \* cmd_Tokenize's code
    rock,     \* what the emit callback has collected: [count, q]
    nalloc,   \* allocations attempted so far
    emitted,  \* history: the tokens emit was called with, in call order
    heap,     \* history: one entry per allocation attempted, [kind, holder, frees]
    ret,      \* cmd_Split's return value ("pending" until it returns)
    pargc,    \* the caller's argc
    pargv     \* the caller's argv: NULLPTR or Ptr(vector)

vars == <<entry, argv_in, text, emit, fault, pc, state, tp, tb, code, rock,
          nalloc, emitted, heap, ret, pargc, pargv>>

\* The variables no operation writes: the run's inputs.
inputs == <<entry, argv_in, emit, fault>>

(***************************************************************************)
(* State of afs_getline / afs_getdelim (src/util/getline.c).               *)
(***************************************************************************)
VARIABLES
    fp,         \* the stream: [data, pos], pos bytes of data already read
    delimiter,  \* the delimiter argument ('\n' for afs_getline)
    buf,        \* *buf: NULLPTR or Ptr(the bytes of the allocation)
    bufsiz,     \* *bufsiz
    ptr,        \* ptr - *buf inside a call
    length,     \* the value the last call returned
    gl_pc,      \* "idle" between calls, "loop" inside the for loop
    gl_fault,   \* the failure of this run: [kind, at]
    gl_nalloc,  \* malloc and realloc calls so far
    calls,      \* history: [length, line] of each call that has returned
    oob         \* history: a byte was written outside the allocation

glvars == <<fp, delimiter, buf, bufsiz, ptr, length, gl_pc, gl_fault,
            gl_nalloc, calls, oob>>

\* afs_getline is not in use.
GetlineIdle ==
    /\ fp = [data |-> <<>>, pos |-> 0]
    /\ delimiter = LF
    /\ buf = NULLPTR
    /\ bufsiz = 0
    /\ ptr = 0
    /\ length = 0
    /\ gl_pc = "unused"
    /\ gl_fault = [kind |-> "none", at |-> 0]
    /\ gl_nalloc = 0
    /\ calls = <<>>
    /\ oob = FALSE

(***************************************************************************)
(* ReadBozoFile and WriteBozoFile: the state.                              *)
(***************************************************************************)
VARIABLES
    bz_fs,               \* the files: [target, nbz], each NULLPTR (no such
                         \* file) or Ptr(the lines of the file, each with
                         \* its newline)
    bz_fault,            \* the failure injected in this run
    test_code,           \* the code the test expects, if the file is a test's
    bozo_isrestricted,   \* the globals the file is read into and written from
    bozo_nextRestartKT,
    bozo_nextDayKT,
    allBnodes,           \* the bnodes of the bnode library, in creation order
    bz_pc,               \* where the caller of ReadBozoFile/WriteBozoFile is
    bz_state,            \* ReadBozoFile's state
    bz_line,             \* ReadBozoFile's line
    bnode_info,          \* ReadBozoFile's bnode_info: NULLPTR or Ptr(record)
    bz_code,             \* the value the last call returned
    bz_nalloc,           \* allocations attempted by the parsers so far
    bz_live,             \* allocations of the parsers not yet freed
    bnode_calls,         \* history: the calls of bnode_Create, bnode_SetStat
    bz_before,           \* history: globals and bnodes when WriteBozoFile ran
    bz_rounds            \* how many times the server has been restarted

bzvars == <<bz_fs, bz_fault, test_code, bozo_isrestricted, bozo_nextRestartKT,
            bozo_nextDayKT, allBnodes, bz_pc, bz_state, bz_line, bnode_info,
            bz_code, bz_nalloc, bz_live, bnode_calls, bz_before, bz_rounds>>

\* memset(&ktime, v, sizeof(ktime))
KtimeAll(v) == [mask |-> v, day |-> v, hour |-> v, min |-> v, sec |-> v]

NoBzFault == [kind |-> "none", at |-> 0]

\* The operations on the BosConfig file are not used in this run.
BozoIdle ==
    /\ bz_fs = [target |-> NULLPTR, nbz |-> NULLPTR]
    /\ bz_fault = NoBzFault
    /\ test_code = NULLPTR
    /\ bozo_isrestricted = 0
    /\ bozo_nextRestartKT = KtimeAll(0)
    /\ bozo_nextDayKT = KtimeAll(0)
    /\ allBnodes = <<>>
    /\ bz_pc = "unused"
    /\ bz_state = 0
    /\ bz_line = 1
    /\ bnode_info = NULLPTR
    /\ bz_code = SUCCESS
    /\ bz_nalloc = 0
    /\ bz_live = 0
    /\ bnode_calls = <<>>
    /\ bz_before = NULLPTR
    /\ bz_rounds = 0


States == {"STATE_DELIM", "STATE_BARE", "STATE_SQUOTE", "STATE_DQUOTE",
           "STATE_ESC", "STATE_QESC", "STATE_END", "STATE_ERROR"}

NoFault == [kind |-> "none", at |-> 0]

\* The failures a run may meet: the at-th allocation returns NULL, or the
\* at-th call of the caller's callback returns a non-zero code.
Faults == [kind : {"alloc", "emit"}, at : 1..MaxFaultAt]

\* join_test_cases: the argument lists of the test of cmd_Join and the lines
\* the test expects for them.
join_test_cases ==
    <<
    \* empty argv
    [argv |-> <<>>, line |-> <<>>],
    \* empty argument
    [argv |-> <<<<>>>>, line |-> <<SQ, SQ>>],
    \* empty arguments
    [argv |-> <<<<>>, <<>>, <<>>>>, line |-> <<SQ, SQ, SP, SQ, SQ, SP, SQ,
      SQ>>],
    \* space arguments
    [argv |-> <<<<SP>>, <<SP, SP>>>>, line |-> <<SQ, SP, SQ, SP, SQ, SP, SP,
      SQ>>],
    \* whitespace arguments
    [argv |-> <<<<SP>>, <<TAB>>, <<LF>>>>, line |-> <<SQ, SP, SQ, SP, SQ, TAB,
      SQ, SP, SQ, LF, SQ>>],
    \* normal arguments
    [argv |-> <<<<"h", "e", "l", "l", "o">>, <<"w", "o", "r", "l", "d">>>>,
      line |-> <<"h", "e", "l", "l", "o", SP, "w", "o", "r", "l", "d">>],
    \* normal arguments with punctuation
    [argv |-> <<<<"h", "e", "l", "l", "o", ",">>, <<"w", "o", "r", "l", "d",
      "!">>>>, line |-> <<"h", "e", "l", "l", "o", ",", SP, SQ, "w", "o", "r",
      "l", "d", "!", SQ>>],
    \* normal arguments with more punctuation
    [argv |-> <<<<"t", "e", "s", "t", "i", "n", "g", ":">>, <<"o", "n", "e">>,
      <<"t", "w", "o">>, <<"t", "h", "r", "e", "e", "?">>>>, line |-> <<"t",
      "e", "s", "t", "i", "n", "g", ":", SP, "o", "n", "e", SP, "t", "w", "o",
      SP, SQ, "t", "h", "r", "e", "e", "?", SQ>>],
    \* args with spaces and 4 more args
    [argv |-> <<<<"a", "r", "g", "s", SP, "w", "i", "t", "h", SP, "s", "p",
      "a", "c", "e", "s">>, <<"a", "n", "d">>, <<"4">>, <<"m", "o", "r",
      "e">>, <<"a", "r", "g", "s">>>>, line |-> <<SQ, "a", "r", "g", "s", SP,
      "w", "i", "t", "h", SP, "s", "p", "a", "c", "e", "s", SQ, SP, "a", "n",
      "d", SP, "4", SP, "m", "o", "r", "e", SP, "a", "r", "g", "s">>],
    \* args with leading spaces and trailing spaces
    [argv |-> <<<<SP, SP, "a", "r", "g", "s", SP, "w", "i", "t", "h", SP, "l",
      "e", "a", "d", "i", "n", "g", SP, "s", "p", "a", "c", "e", "s">>, <<"a",
      "n", "d", SP, "t", "r", "a", "i", "l", "i", "n", "g", SP, "s", "p", "a",
      "c", "e", "s", SP>>>>, line |-> <<SQ, SP, SP, "a", "r", "g", "s", SP,
      "w", "i", "t", "h", SP, "l", "e", "a", "d", "i", "n", "g", SP, "s", "p",
      "a", "c", "e", "s", SQ, SP, SQ, "a", "n", "d", SP, "t", "r", "a", "i",
      "l", "i", "n", "g", SP, "s", "p", "a", "c", "e", "s", SP, SQ>>],
    \* arg with single quotes
    [argv |-> <<<<SQ, "N", "o", "t", SP, "a", "l", "l", SP, "t", "h", "o",
      "s", "e", SP, "w", "h", "o", SP, "w", "a", "n", "d", "e", "r", SP, "a",
      "r", "e", SP, "l", "o", "s", "t", SQ, SP, "-", SP, "T", "o", "l", "k",
      "i", "e", "n">>>>, line |-> <<SQ, SQ, DQ, SQ, DQ, SQ, "N", "o", "t", SP,
      "a", "l", "l", SP, "t", "h", "o", "s", "e", SP, "w", "h", "o", SP, "w",
      "a", "n", "d", "e", "r", SP, "a", "r", "e", SP, "l", "o", "s", "t", SQ,
      DQ, SQ, DQ, SQ, SP, "-", SP, "T", "o", "l", "k", "i", "e", "n", SQ>>],
    \* arg with double quotes
    [argv |-> <<<<DQ, "N", "o", "t", SP, "a", "l", "l", SP, "t", "h", "o",
      "s", "e", SP, "w", "h", "o", SP, "w", "a", "n", "d", "e", "r", SP, "a",
      "r", "e", SP, "l", "o", "s", "t", DQ, SP, "-", SP, "T", "o", "l", "k",
      "i", "e", "n">>>>, line |-> <<SQ, DQ, "N", "o", "t", SP, "a", "l", "l",
      SP, "t", "h", "o", "s", "e", SP, "w", "h", "o", SP, "w", "a", "n", "d",
      "e", "r", SP, "a", "r", "e", SP, "l", "o", "s", "t", DQ, SP, "-", SP,
      "T", "o", "l", "k", "i", "e", "n", SQ>>],
    \* one long arg with spaces
    [argv |-> <<<<"t", "h", "i", "s", BS, SP, "i", "s", BS, SP, "o", "n", "e",
      BS, SP, "l", "o", "n", "g", BS, SP, "a", "r", "g">>>>, line |-> <<SQ,
      "t", "h", "i", "s", BS, SP, "i", "s", BS, SP, "o", "n", "e", BS, SP,
      "l", "o", "n", "g", BS, SP, "a", "r", "g", SQ>>],
    \* one short arg and one long arg with spaces
    [argv |-> <<<<"t", "h", "i", "s">>, <<"i", "s", BS, SP, "t", "w", "o", BS,
      SP, "a", "r", "g", "s">>>>, line |-> <<"t", "h", "i", "s", SP, SQ, "i",
      "s", BS, SP, "t", "w", "o", BS, SP, "a", "r", "g", "s", SQ>>],
    \* arg with one single quote
    [argv |-> <<<<"d", "o", "n", "t", SQ, "t">>, <<"w", "o", "r", "r", "y",
      ",">>, <<"b", "e">>, <<"h", "a", "p", "p", "y">>>>, line |-> <<SQ, "d",
      "o", "n", "t", SQ, DQ, SQ, DQ, SQ, "t", SQ, SP, "w", "o", "r", "r", "y",
      ",", SP, "b", "e", SP, "h", "a", "p", "p", "y">>],
    \* arg with escaped single quote
    [argv |-> <<<<"d", "o", "n", "t", BS, SQ, "t">>, <<"w", "o", "r", "r",
      "y", ",">>, <<"b", "e">>, <<"h", "a", "p", "p", "y">>>>, line |-> <<SQ,
      "d", "o", "n", "t", BS, SQ, DQ, SQ, DQ, SQ, "t", SQ, SP, "w", "o", "r",
      "r", "y", ",", SP, "b", "e", SP, "h", "a", "p", "p", "y">>],
    \* args with unquoted single quotes
    [argv |-> <<<<SQ, "n", "o", "t">>, <<"q", "u", "o", "t", "e", "d", SQ>>>>,
      line |-> <<SQ, SQ, DQ, SQ, DQ, SQ, "n", "o", "t", SQ, SP, SQ, "q", "u",
      "o", "t", "e", "d", SQ, DQ, SQ, DQ, SQ, SQ>>],
    \* arg with escaped double quote
    [argv |-> <<<<"d", "o", "n", DQ, "t", SP, "w", "o", "r", "r", "y", ",">>,
      <<"b", "e">>, <<"h", "a", "p", "p", "y">>>>, line |-> <<SQ, "d", "o",
      "n", DQ, "t", SP, "w", "o", "r", "r", "y", ",", SQ, SP, "b", "e", SP,
      "h", "a", "p", "p", "y">>],
    \* arg with two single quotes
    [argv |-> <<<<"w", "i", "t", "h", SP, SQ, "s", "i", "n", "g", "l", "e",
      SQ, SP, "q", "u", "o", "t", "e", "s">>>>, line |-> <<SQ, "w", "i", "t",
      "h", SP, SQ, DQ, SQ, DQ, SQ, "s", "i", "n", "g", "l", "e", SQ, DQ, SQ,
      DQ, SQ, SP, "q", "u", "o", "t", "e", "s", SQ>>],
    \* arg with escaped double quotes
    [argv |-> <<<<"w", "i", "t", "h", SP, "e", "s", "c", "a", "p", "e", "d",
      SP, DQ, "d", "o", "u", "b", "l", "e", DQ, SP, "q", "u", "o", "t", "e",
      "s">>>>, line |-> <<SQ, "w", "i", "t", "h", SP, "e", "s", "c", "a", "p",
      "e", "d", SP, DQ, "d", "o", "u", "b", "l", "e", DQ, SP, "q", "u", "o",
      "t", "e", "s", SQ>>],
    \* arg with single quotes and escaped double quotes
    [argv |-> <<<<"w", "i", "t", "h", SP, SQ, "s", "i", "n", "g", "l", "e",
      SQ, SP, "a", "n", "d", SP, "e", "s", "c", "a", "p", "e", "d", SP, BS,
      DQ, "d", "o", "u", "b", "l", "e", BS, DQ, SP, "q", "u", "o", "t", "e",
      "s">>>>, line |-> <<SQ, "w", "i", "t", "h", SP, SQ, DQ, SQ, DQ, SQ, "s",
      "i", "n", "g", "l", "e", SQ, DQ, SQ, DQ, SQ, SP, "a", "n", "d", SP, "e",
      "s", "c", "a", "p", "e", "d", SP, BS, DQ, "d", "o", "u", "b", "l", "e",
      BS, DQ, SP, "q", "u", "o", "t", "e", "s", SQ>>],
    \* arg with escaped double quotes
    [argv |-> <<<<"w", "i", "t", "h", SP, "e", "s", "c", "a", "p", "e", "d",
      SP, BS, DQ, "d", "o", "u", "b", "l", "e", BS, DQ, SP, "q", "u", "o",
      "t", "e", "s">>>>, line |-> <<SQ, "w", "i", "t", "h", SP, "e", "s", "c",
      "a", "p", "e", "d", SP, BS, DQ, "d", "o", "u", "b", "l", "e", BS, DQ,
      SP, "q", "u", "o", "t", "e", "s", SQ>>],
    \* arg with quote-escaped single quotes
    [argv |-> <<<<"s", "i", "n", "g", "l", "e", SP, "w", "i", "t", "h", SP,
      "q", "u", "o", "t", "e", "-", "e", "s", "c", "a", "p", "e", "d", SP, DQ,
      SQ, DQ, "s", "i", "n", "g", "l", "e", DQ, SQ, DQ, SP, "q", "u", "o",
      "t", "e", "s">>>>, line |-> <<SQ, "s", "i", "n", "g", "l", "e", SP, "w",
      "i", "t", "h", SP, "q", "u", "o", "t", "e", "-", "e", "s", "c", "a",
      "p", "e", "d", SP, DQ, SQ, DQ, SQ, DQ, SQ, DQ, "s", "i", "n", "g", "l",
      "e", DQ, SQ, DQ, SQ, DQ, SQ, DQ, SP, "q", "u", "o", "t", "e", "s",
      SQ>>],
    \* arg with quote-escaped double quotes
    [argv |-> <<<<DQ, "N", "o", "t", SP, "a", "l", "l", SP, "t", "h", "o",
      "s", "e", SP, "w", "h", "o", SP, "w", "a", "n", "d", "e", "r", SP, "a",
      "r", "e", SP, "l", "o", "s", "t", DQ, SP, "-", SP, "T", "o", "l", "k",
      "i", "e", "n">>>>, line |-> <<SQ, DQ, "N", "o", "t", SP, "a", "l", "l",
      SP, "t", "h", "o", "s", "e", SP, "w", "h", "o", SP, "w", "a", "n", "d",
      "e", "r", SP, "a", "r", "e", SP, "l", "o", "s", "t", DQ, SP, "-", SP,
      "T", "o", "l", "k", "i", "e", "n", SQ>>],
    \* arg with quote-escaped double quotes and more args
    [argv |-> <<<<DQ, "N", "o", "t", SP, "a", "l", "l", SP, "t", "h", "o",
      "s", "e", SP, "w", "h", "o", SP, "w", "a", "n", "d", "e", "r", SP, "a",
      "r", "e", SP, "l", "o", "s", "t", DQ>>, <<"-">>, <<"T", "o", "l", "k",
      "i", "e", "n">>>>, line |-> <<SQ, DQ, "N", "o", "t", SP, "a", "l", "l",
      SP, "t", "h", "o", "s", "e", SP, "w", "h", "o", SP, "w", "a", "n", "d",
      "e", "r", SP, "a", "r", "e", SP, "l", "o", "s", "t", DQ, SQ, SP, "-",
      SP, "T", "o", "l", "k", "i", "e", "n">>]
    >>

Scenarios ==
    [entry : {"cmd_Tokenize"}, emit : {"NULL", "callback"}, text : Texts,
     argv : {<<>>}, fault : {NoFault}]
    \cup
    [entry : {"cmd_Split"}, emit : {"append_token"}, text : Texts,
     argv : {<<>>}, fault : {NoFault}]
    \cup
    [entry : {"cmd_Join"}, emit : {"append_token"}, text : {<<>>},
     argv : ArgLists, fault : {NoFault}]
    \cup
    [entry : {"cmd_Join"}, emit : {"append_token"}, text : {<<>>},
     argv : {join_test_cases[i].argv : i \in DOMAIN join_test_cases},
     fault : {NoFault}]
    \cup
    {s \in [entry : {"cmd_Tokenize"}, emit : {"NULL", "callback"},
            text : FaultTexts, argv : {<<>>}, fault : Faults] :
        s.fault.kind = "emit" => s.emit = "callback"}
    \cup
    [entry : {"cmd_Split"}, emit : {"append_token"}, text : FaultTexts,
     argv : {<<>>}, fault : [kind : {"alloc"}, at : 1..MaxFaultAt]]

Init ==
    \E s \in Scenarios :
        /\ entry = s.entry
        /\ argv_in = s.argv
        /\ text = s.text
        /\ emit = s.emit
        /\ fault = s.fault
        /\ pc = CASE s.entry = "cmd_Join" -> "join"
                  [] s.entry = "cmd_Split" -> "split"
                  [] OTHER -> "tokenize"
        /\ state = "STATE_DELIM"
        /\ tp = 1
        /\ tb = NULLPTR
        /\ code = SUCCESS
        /\ rock = [count |-> 0, q |-> <<>>]
        /\ nalloc = 0
        /\ emitted = <<>>
        /\ heap = <<>>
        /\ ret = "pending"
        /\ pargc = 0
        /\ pargv = NULLPTR
        /\ GetlineIdle
        /\ BozoIdle

(***************************************************************************)
(* The environment: which allocation, which callback invocation fails.     *)
(***************************************************************************)
\* Whether the k-th allocation of the run succeeds.
AllocOk(k) == ~(fault.kind = "alloc" /\ fault.at = k)

\* Whether the k-th call of the caller's callback returns 0.
CallbackOk(k) == ~(fault.kind = "emit" /\ fault.at = k)

(***************************************************************************)
(* The heap: entry k is the k-th allocation attempted.  kind is what was   *)
(* allocated ("failed" when the allocator returned NULL, "realloc" for a   *)
(* resize of the token buffer), holder is where the program keeps the      *)
(* pointer, frees counts the calls of free() on it.                        *)
(***************************************************************************)
\* calloc / strdup: the next entry of the heap.
Alloc(h, kind, holder, ok) ==
    Append(h, IF ok THEN [kind |-> kind, holder |-> holder, frees |-> 0]
                    ELSE [kind |-> "failed", holder |-> "none", frees |-> 0])

\* free(p) for each object of the set S.
Free(h, S) ==
    [k \in DOMAIN h |-> IF k \in S THEN [h[k] EXCEPT !.frees = @ + 1] ELSE h[k]]

\* The pointer to object k is stored in another place.
Move(h, S, holder) ==
    [k \in DOMAIN h |-> IF k \in S THEN [h[k] EXCEPT !.holder = holder] ELSE h[k]]

\* The objects a place points to.
HeldBy(h, holder) == {k \in DOMAIN h : h[k].holder = holder}

(***************************************************************************)
(* cmd_Tokenize.                                                           *)
(***************************************************************************)
\* *tp: the character the loop reads, NUL at the end of the string.
Cur == IF tp <= Len(text) THEN text[tp] ELSE NUL

\* Where cmd_Tokenize returns to.
AfterTokenize == IF entry = "cmd_Tokenize" THEN "returned" ELSE "split_tokenized"

\* code = init_token_buffer(&tb); if (code != 0) return code;
Tokenize_init ==
    /\ pc = "tokenize"
    /\ nalloc' = nalloc + 1
    /\ heap' = Alloc(heap, "buffer", "tb", AllocOk(nalloc + 1))
    /\ IF AllocOk(nalloc + 1)
       THEN /\ tb' = Ptr(init_token_buffer)
            /\ code' = SUCCESS
            /\ pc' = "scan"
       ELSE /\ tb' = NULLPTR
            /\ code' = ENOMEM
            /\ pc' = AfterTokenize
    /\ state' = "STATE_DELIM"
    /\ tp' = 1
    /\ UNCHANGED <<inputs, text, rock, emitted, ret, pargc, pargv>>

\* One loop iteration that only changes the lexer state.
Goto(next) ==
    /\ state' = next
    /\ tp' = tp + 1
    /\ UNCHANGED <<inputs, text, pc, tb, code, rock, nalloc, emitted, heap,
                   ret, pargc, pargv>>

\* code = accept_char(&tb, *tp); if (code != 0) goto fail; state = next;
Accept(next) ==
    LET grows == NeedsGrowth(tb[1]) /\ NewSize(tb[1]) > tb[1].buffer_size
        r == accept_char(tb[1], Cur, AllocOk(nalloc + 1))
    IN  /\ nalloc' = IF grows THEN nalloc + 1 ELSE nalloc
        /\ heap' = IF grows
                   THEN Alloc(heap, "realloc", "none", AllocOk(nalloc + 1))
                   ELSE heap
        /\ code' = r.code
        /\ tb' = Ptr(r.tb)
        /\ IF r.code # SUCCESS
           THEN pc' = "fail" /\ UNCHANGED <<state, tp>>
           ELSE pc' = pc /\ state' = next /\ tp' = tp + 1
        /\ UNCHANGED <<inputs, text, rock, emitted, ret, pargc, pargv>>

\* append_token of cmd_Split: the list node is the run's next allocation.
append_token(token, r, k) ==
    IF ~AllocOk(k)
    THEN [code |-> ENOMEM, rock |-> r]
    ELSE [code |-> SUCCESS,
          rock |-> [count |-> r.count + 1, q |-> Append(r.q, token)]]

\* The caller's callback given to cmd_Tokenize: it collects the tokens, and
\* returns a non-zero code at the call the run's fault names.
callback(token, r, k) ==
    IF ~CallbackOk(k)
    THEN [code |-> EMIT_FAILED, rock |-> r]
    ELSE [code |-> SUCCESS,
          rock |-> [count |-> r.count + 1, q |-> Append(r.q, token)]]

\* The heap after emit(token, rock) returned c for the token copy h holds
\* last: append_token allocates its node and links the token to it, the
\* caller's callback keeps the token; if (code != 0) { free(token); ... }
\* is cmd_Tokenize's.
EmitHeap(h, c) ==
    LET t == Len(h)
        h2 == IF emit = "append_token"
              THEN Alloc(h, "node", "list", c = SUCCESS)
              ELSE h
    IN  IF c = SUCCESS
        THEN Move(h2, {t}, IF emit = "append_token" THEN "list" ELSE "callback")
        ELSE Free(h2, {t})

\* if (emit != NULL) { token = strdup(tb.token_start); ... code = emit(token,
\* rock); ... }: the code, the callback's rock, the allocations attempted,
\* the tokens emit was called with and the heap, afterwards.
EmitToken ==
    IF emit = "NULL"
    THEN [code |-> code, rock |-> rock, nalloc |-> nalloc, emitted |-> emitted,
          heap |-> heap]
    ELSE IF ~AllocOk(nalloc + 1)
    THEN [code |-> ENOMEM, rock |-> rock, nalloc |-> nalloc + 1,
          emitted |-> emitted, heap |-> Alloc(heap, "token", "lexer", FALSE)]
    ELSE LET token == tb[1].token
             e == IF emit = "append_token"
                  THEN append_token(token, rock, nalloc + 2)
                  ELSE callback(token, rock, Len(emitted) + 1)
         IN [code |-> e.code, rock |-> e.rock,
             nalloc |-> IF emit = "append_token" THEN nalloc + 2 ELSE nalloc + 1,
             emitted |-> Append(emitted, token),
             heap |-> EmitHeap(Alloc(heap, "token", "lexer", TRUE), e.code)]

\* The buffer is not cleared after a token closed by whitespace.
EmitAnd_KeepsBuffer(next, clear) ==
    LET e == EmitToken
    IN  /\ code' = e.code
        /\ rock' = e.rock
        /\ nalloc' = e.nalloc
        /\ emitted' = e.emitted
        /\ heap' = e.heap
        /\ IF e.code # SUCCESS
           THEN pc' = "fail" /\ UNCHANGED <<state, tp, tb>>
           ELSE /\ pc' = pc
                /\ state' = next
                /\ tp' = tp + 1
                /\ tb' = tb
        /\ UNCHANGED <<inputs, text, ret, pargc, pargv>>

\* The loop goes on after emit returned a non-zero code.
EmitAnd_IgnoresFailure(next, clear) ==
    LET e == EmitToken
    IN  /\ code' = e.code
        /\ rock' = e.rock
        /\ nalloc' = e.nalloc
        /\ emitted' = e.emitted
        /\ heap' = e.heap
        /\ pc' = pc
        /\ state' = next
        /\ tp' = tp + 1
        /\ tb' = IF clear THEN Ptr(clear_token_buffer(tb[1])) ELSE tb
        /\ UNCHANGED <<inputs, text, ret, pargc, pargv>>

\* The two emitting cases of STATE_BARE: at NUL the state becomes STATE_END,
\* at whitespace the buffer is cleared and the state becomes STATE_DELIM.
EmitAnd(next, clear) ==
    LET e == EmitToken
    IN  /\ code' = e.code
        /\ rock' = e.rock
        /\ nalloc' = e.nalloc
        /\ emitted' = e.emitted
        /\ heap' = e.heap
        /\ IF e.code # SUCCESS
           THEN pc' = "fail" /\ UNCHANGED <<state, tp, tb>>
           ELSE /\ pc' = pc
                /\ state' = next
                /\ tp' = tp + 1
                /\ tb' = IF clear THEN Ptr(clear_token_buffer(tb[1])) ELSE tb
        /\ UNCHANGED <<inputs, text, ret, pargc, pargv>>

\* One loop iteration that ends the scan with an error code.
Error(c) ==
    /\ code' = c
    /\ state' = "STATE_ERROR"
    /\ tp' = tp + 1
    /\ UNCHANGED <<inputs, text, pc, tb, rock, nalloc, emitted, heap, ret,
                   pargc, pargv>>

Scanning(s) == pc = "scan" /\ state = s

(***************************************************************************)
(* Faulty variants of the lexer's cases, against which the properties      *)
(* below are tested: each differs from the case it is named after in one   *)
(* transition.                                                             *)
(***************************************************************************)
\* The end of the line in STATE_DELIM emits the (empty) token buffer.
StepDelim_EmitsAtEnd ==
    /\ Scanning("STATE_DELIM")
    /\ CASE Cur = NUL -> EmitAnd("STATE_END", FALSE)
         [] Cur = SQ -> Goto("STATE_SQUOTE")
         [] Cur = DQ -> Goto("STATE_DQUOTE")
         [] Cur = BS -> Goto("STATE_ESC")
         [] Cur \in Whitespace -> Goto("STATE_DELIM")
         [] OTHER -> Accept("STATE_BARE")

\* The end of the line in STATE_BARE does not emit the last token.
StepBare_NoEmitAtEnd ==
    /\ Scanning("STATE_BARE")
    /\ CASE Cur = NUL -> Goto("STATE_END")
         [] Cur \in Whitespace -> EmitAnd("STATE_DELIM", TRUE)
         [] Cur = SQ -> Goto("STATE_SQUOTE")
         [] Cur = DQ -> Goto("STATE_DQUOTE")
         [] Cur = BS -> Goto("STATE_ESC")
         [] OTHER -> Accept("STATE_BARE")

\* A quote met in STATE_BARE ends the token: quotes as token boundaries.
StepBare_QuoteEndsToken ==
    /\ Scanning("STATE_BARE")
    /\ CASE Cur = NUL -> EmitAnd("STATE_END", FALSE)
         [] Cur \in Whitespace -> EmitAnd("STATE_DELIM", TRUE)
         [] Cur = SQ -> EmitAnd("STATE_SQUOTE", TRUE)
         [] Cur = DQ -> EmitAnd("STATE_DQUOTE", TRUE)
         [] Cur = BS -> Goto("STATE_ESC")
         [] OTHER -> Accept("STATE_BARE")

\* A double quote closes a single-quoted segment too.
StepSQuote_AnyQuoteCloses ==
    /\ Scanning("STATE_SQUOTE")
    /\ CASE Cur = NUL -> Error(CMD_BADFORMAT)
         [] Cur \in {SQ, DQ} -> Goto("STATE_BARE")
         [] OTHER -> Accept("STATE_SQUOTE")

\* A backslash escapes the next character inside single quotes.
StepSQuote_BackslashEscapes ==
    /\ Scanning("STATE_SQUOTE")
    /\ CASE Cur = NUL -> Error(CMD_BADFORMAT)
         [] Cur = SQ -> Goto("STATE_BARE")
         [] Cur = BS -> Goto("STATE_ESC")
         [] OTHER -> Accept("STATE_SQUOTE")

\* Closing an empty single-quoted segment drops the empty token.
StepSQuote_EmptyDropped ==
    /\ Scanning("STATE_SQUOTE")
    /\ CASE Cur = NUL -> Error(CMD_BADFORMAT)
         [] Cur = SQ -> Goto(IF tb[1].token = <<>> THEN "STATE_DELIM"
                             ELSE "STATE_BARE")
         [] OTHER -> Accept("STATE_SQUOTE")

\* The end of the line closes an open double-quoted segment.
StepDQuote_EndCloses ==
    /\ Scanning("STATE_DQUOTE")
    /\ CASE Cur = NUL -> EmitAnd("STATE_END", FALSE)
         [] Cur = DQ -> Goto("STATE_BARE")
         [] Cur = BS -> Goto("STATE_QESC")
         [] OTHER -> Accept("STATE_DQUOTE")

\* An escaped whitespace character is dropped (a line continuation).
StepEsc_DropsWhitespace ==
    /\ Scanning("STATE_ESC")
    /\ CASE Cur = NUL -> Error(CMD_BADFORMAT)
         [] Cur \in Whitespace -> Goto("STATE_BARE")
         [] OTHER -> Accept("STATE_BARE")

\* A backslash at the end of the line is ignored.
StepEsc_EndAccepted ==
    /\ Scanning("STATE_ESC")
    /\ CASE Cur = NUL -> EmitAnd("STATE_END", FALSE)
         [] OTHER -> Accept("STATE_BARE")

\* An escape inside double quotes returns to STATE_BARE, as STATE_ESC does.
StepQEsc_ReturnsToBare ==
    /\ Scanning("STATE_QESC")
    /\ CASE Cur = NUL -> Error(CMD_BADFORMAT)
         [] OTHER -> Accept("STATE_BARE")

\* The end of the line after a backslash inside double quotes gets an error
\* code of its own.
StepQEsc_OwnErrorCode ==
    /\ Scanning("STATE_QESC")
    /\ CASE Cur = NUL -> Error(CMD_INTERNALERROR)
         [] OTHER -> Accept("STATE_DQUOTE")

(***************************************************************************)
(* The cases of the switch on the lexer state.                             *)
(***************************************************************************)
StepDelim ==
    /\ Scanning("STATE_DELIM")
    /\ CASE Cur = NUL -> Goto("STATE_END")
         [] Cur = SQ -> Goto("STATE_SQUOTE")
         [] Cur = DQ -> Goto("STATE_DQUOTE")
         [] Cur = BS -> Goto("STATE_ESC")
         [] Cur \in Whitespace -> Goto("STATE_DELIM")
         [] OTHER -> Accept("STATE_BARE")

StepBare ==
    /\ Scanning("STATE_BARE")
    /\ CASE Cur = NUL -> EmitAnd("STATE_END", FALSE)
         [] Cur \in Whitespace -> EmitAnd("STATE_DELIM", TRUE)
         [] Cur = SQ -> Goto("STATE_SQUOTE")
         [] Cur = DQ -> Goto("STATE_DQUOTE")
         [] Cur = BS -> Goto("STATE_ESC")
         [] OTHER -> Accept("STATE_BARE")

StepSQuote ==
    /\ Scanning("STATE_SQUOTE")
    /\ CASE Cur = NUL -> Error(CMD_BADFORMAT)
         [] Cur = SQ -> Goto("STATE_BARE")
         [] OTHER -> Accept("STATE_SQUOTE")

\* The end of the line inside double quotes is stored like any character
\* and the scan goes on behind it.
StepDQuote_ReadsPastEnd ==
    /\ Scanning("STATE_DQUOTE")
    /\ CASE Cur = DQ -> Goto("STATE_BARE")
         [] Cur = BS -> Goto("STATE_QESC")
         [] OTHER -> Accept("STATE_DQUOTE")

StepDQuote ==
    /\ Scanning("STATE_DQUOTE")
    /\ CASE Cur = NUL -> Error(CMD_BADFORMAT)
         [] Cur = DQ -> Goto("STATE_BARE")
         [] Cur = BS -> Goto("STATE_QESC")
         [] OTHER -> Accept("STATE_DQUOTE")

StepEsc ==
    /\ Scanning("STATE_ESC")
    /\ CASE Cur = NUL -> Error(CMD_BADFORMAT)
         [] OTHER -> Accept("STATE_BARE")

StepQEsc ==
    /\ Scanning("STATE_QESC")
    /\ CASE Cur = NUL -> Error(CMD_BADFORMAT)
         [] OTHER -> Accept("STATE_DQUOTE")

\* The default case of the switch on the state.
StepDefault ==
    /\ pc = "scan"
    /\ state \notin States
    /\ Error(CMD_INTERNALERROR)

\* The switch on the state has no case for STATE_QESC, which falls to the
\* default case.
Tokenize_step_NoQEscCase ==
    /\ pc = "scan"
    /\ state \notin {"STATE_END", "STATE_ERROR"}
    /\ CASE state = "STATE_DELIM" -> StepDelim
         [] state = "STATE_BARE" -> StepBare
         [] state = "STATE_SQUOTE" -> StepSQuote
         [] state = "STATE_DQUOTE" -> StepDQuote
         [] state = "STATE_ESC" -> StepEsc
         [] OTHER -> Error(CMD_INTERNALERROR)

\* One iteration of for (tp = text; state != STATE_END && state !=
\* STATE_ERROR; tp++) switch (state) { ... }
Tokenize_step ==
    /\ pc = "scan"
    /\ state \notin {"STATE_END", "STATE_ERROR"}
    /\ CASE state = "STATE_DELIM" -> StepDelim
         [] state = "STATE_BARE" -> StepBare
         [] state = "STATE_SQUOTE" -> StepSQuote
         [] state = "STATE_DQUOTE" -> StepDQuote
         [] state = "STATE_ESC" -> StepEsc
         [] state = "STATE_QESC" -> StepQEsc
         [] OTHER -> StepDefault

\* The loop ends (or a goto fail was taken): free_token_buffer(&tb); return code;
Tokenize_return ==
    /\ \/ pc = "fail"
       \/ pc = "scan" /\ state \in {"STATE_END", "STATE_ERROR"}
    /\ tb' = NULLPTR
    /\ heap' = Free(heap, HeldBy(heap, "tb"))
    /\ pc' = AfterTokenize
    /\ UNCHANGED <<inputs, text, state, tp, code, rock, nalloc, emitted, ret,
                   pargc, pargv>>

(***************************************************************************)
(* cmd_Join, cmd_Split, cmd_FreeSplit.                                     *)
(***************************************************************************)
\* The caller joins argv_in and then splits the line it got.
cmd_Join ==
    /\ pc = "join"
    /\ text' = JoinArgs(argv_in)
    /\ pc' = "split"
    /\ UNCHANGED <<inputs, state, tp, tb, code, rock, nalloc, emitted, heap,
                   ret, pargc, pargv>>

\* tokens.count = 0; opr_queue_Init(&tokens.q);
\* code = cmd_Tokenize(text, append_token, &tokens);
Split_call ==
    /\ pc = "split"
    /\ rock' = [count |-> 0, q |-> <<>>]
    /\ pc' = "tokenize"
    /\ UNCHANGED <<inputs, text, state, tp, tb, code, nalloc, emitted, heap,
                   ret, pargc, pargv>>

\* The vector has count slots: the terminating NULL is missing.
VectorOf_NoTerminator(r) ==
    [i \in 1..r.count |-> IF i <= Len(r.q) THEN Ptr(r.q[i]) ELSE NULLPTR]

\* The argv vector built from the token list: count + 1 slots, the last NULL.
VectorOf(r) ==
    [i \in 1..(r.count + 1) |-> IF i <= Len(r.q) THEN Ptr(r.q[i]) ELSE NULLPTR]

\* The fail label hands out the tokens collected before the failure.
Split_finish_ReturnsPartial ==
    /\ pc = "split_tokenized"
    /\ LET alloc_tv == code = SUCCESS
           ok == alloc_tv /\ AllocOk(nalloc + 1)
           h == IF alloc_tv
                THEN Alloc(heap, "vector", "pargv", AllocOk(nalloc + 1))
                ELSE heap
           nodes == {k \in HeldBy(heap, "list") : heap[k].kind = "node"}
           tokens == {k \in HeldBy(heap, "list") : heap[k].kind = "token"}
       IN  /\ nalloc' = IF alloc_tv THEN nalloc + 1 ELSE nalloc
           /\ pargc' = rock.count
           /\ pargv' = Ptr(VectorOf(rock))
           /\ ret' = IF ok THEN SUCCESS ELSE IF alloc_tv THEN ENOMEM ELSE code
           /\ heap' = Free(Move(h, tokens, "argv"), nodes)
    /\ rock' = [rock EXCEPT !.q = <<>>]
    /\ pc' = "returned"
    /\ UNCHANGED <<inputs, text, state, tp, tb, code, emitted>>

\* The fail label frees the list nodes and not the tokens they hold.
Split_finish_LeaksTokens ==
    /\ pc = "split_tokenized"
    /\ LET alloc_tv == code = SUCCESS
           ok == alloc_tv /\ AllocOk(nalloc + 1)
           h == IF alloc_tv
                THEN Alloc(heap, "vector", "pargv", AllocOk(nalloc + 1))
                ELSE heap
           nodes == {k \in HeldBy(heap, "list") : heap[k].kind = "node"}
           tokens == {k \in HeldBy(heap, "list") : heap[k].kind = "token"}
       IN  /\ nalloc' = IF alloc_tv THEN nalloc + 1 ELSE nalloc
           /\ IF ok
              THEN /\ pargc' = rock.count
                   /\ pargv' = Ptr(VectorOf(rock))
                   /\ ret' = SUCCESS
                   /\ heap' = Free(Move(h, tokens, "argv"), nodes)
              ELSE /\ pargc' = 0
                   /\ pargv' = NULLPTR
                   /\ ret' = IF alloc_tv THEN ENOMEM ELSE code
                   /\ heap' = Free(h, nodes)
    /\ rock' = [rock EXCEPT !.q = <<>>]
    /\ pc' = "returned"
    /\ UNCHANGED <<inputs, text, state, tp, tb, code, emitted>>

\* The rest of cmd_Split, after cmd_Tokenize has returned: the conversion of
\* the list to a vector, or the fail label.
Split_finish ==
    /\ pc = "split_tokenized"
    /\ LET alloc_tv == code = SUCCESS
           ok == alloc_tv /\ AllocOk(nalloc + 1)
           h == IF alloc_tv
                THEN Alloc(heap, "vector", "pargv", AllocOk(nalloc + 1))
                ELSE heap
           nodes == {k \in HeldBy(heap, "list") : heap[k].kind = "node"}
           tokens == {k \in HeldBy(heap, "list") : heap[k].kind = "token"}
       IN  /\ nalloc' = IF alloc_tv THEN nalloc + 1 ELSE nalloc
           /\ IF ok
              THEN /\ pargc' = rock.count
                   /\ pargv' = Ptr(VectorOf(rock))
                   /\ ret' = SUCCESS
                   /\ heap' = Free(Move(h, tokens, "argv"), nodes)
              ELSE /\ pargc' = 0
                   /\ pargv' = NULLPTR
                   /\ ret' = IF alloc_tv THEN ENOMEM ELSE code
                   /\ heap' = Free(h, tokens \cup nodes)
    /\ rock' = [rock EXCEPT !.q = <<>>]
    /\ pc' = "returned"
    /\ UNCHANGED <<inputs, text, state, tp, tb, code, emitted>>

\* The caller's pointer is left as it was: a second call frees again.
cmd_FreeSplit_KeepsPointer ==
    /\ pc \in {"returned", "released"}
    /\ entry # "cmd_Tokenize"
    /\ heap' = IF pargv # NULLPTR
               THEN Free(heap, HeldBy(heap, "argv") \cup HeldBy(heap, "pargv"))
               ELSE heap
    /\ pargv' = pargv
    /\ pc' = "released"
    /\ UNCHANGED <<inputs, text, state, tp, tb, code, rock, nalloc, emitted,
                   ret, pargc>>

\* cmd_FreeSplit(&argv), called by the caller of cmd_Split any number of times.
cmd_FreeSplit ==
    /\ pc \in {"returned", "released"}
    /\ entry # "cmd_Tokenize"
    /\ heap' = IF pargv # NULLPTR
               THEN Free(heap, HeldBy(heap, "argv") \cup HeldBy(heap, "pargv"))
               ELSE heap
    /\ pargv' = NULLPTR
    /\ pc' = "released"
    /\ UNCHANGED <<inputs, text, state, tp, tb, code, rock, nalloc, emitted,
                   ret, pargc>>

Next ==
    \/ cmd_Join /\ UNCHANGED <<glvars, bzvars>>
    \/ Split_call /\ UNCHANGED <<glvars, bzvars>>
    \/ Tokenize_init /\ UNCHANGED <<glvars, bzvars>>
    \/ Tokenize_step /\ UNCHANGED <<glvars, bzvars>>
    \/ Tokenize_return /\ UNCHANGED <<glvars, bzvars>>
    \/ Split_finish /\ UNCHANGED <<glvars, bzvars>>
    \/ cmd_FreeSplit /\ UNCHANGED <<glvars, bzvars>>

Spec == Init /\ [][Next]_vars

(***************************************************************************)
(* afs_getdelim and afs_getline (src/util/getline.c).  A buffer is the     *)
(* sequence of its bytes, byte i of the C array being element i + 1; a     *)
(* byte no one has written holds GARBAGE.                                  *)
(***************************************************************************)
GARBAGE == "?"

StreamAlphabet == {"a", "b", LF}

Streams == SeqsUpTo(StreamAlphabet, MaxStream)

\* malloc(n): n bytes of unspecified content.
Fresh(n) == [i \in 1..n |-> GARBAGE]

\* The resized buffer does not keep the bytes of the old one.
Resized_LosesBytes(b, n) == [i \in 1..n |-> GARBAGE]

\* realloc(b, n): the old bytes, then bytes of unspecified content.
Resized(b, n) == [i \in 1..n |-> IF i <= Len(b) THEN b[i] ELSE GARBAGE]

\* *(b + i) = c: a write at an index outside the allocation changes no
\* byte of it.
Store(b, i, c) == IF i < Len(b) THEN [b EXCEPT ![i + 1] = c] ELSE b

\* The C string at the start of b: the bytes before the first NUL.
CString(b) ==
    IF \E i \in 1..Len(b) : b[i] = NUL
    THEN SubSeq(b, 1, (CHOOSE i \in 1..Len(b) :
                           b[i] = NUL /\ \A j \in 1..(i - 1) : b[j] # NUL) - 1)
    ELSE b

\* Whether the k-th call of malloc or realloc succeeds.
GlAllocOk(k) == ~(gl_fault.kind = "alloc" /\ gl_fault.at = k)

\* fgetc(fp): -1 at the end of the data (feof is then true) or when the
\* read fails (feof is then false), else the next byte.
AtEof == fp.pos >= Len(fp.data)
ReadFails == gl_fault.kind = "read" /\ gl_fault.at = fp.pos + 1

\* The buffer and size the caller passes to the first call: no buffer, or
\* an allocation of 0..MaxBufInit bytes; with no buffer the size is ignored.
CallerBuffers ==
    [buf : {"NULL"}, bufsiz : {0, 1}]
    \cup [buf : {"malloced"}, bufsiz : 0..MaxBufInit]

GlFaults == [kind : {"alloc", "read"}, at : 1..MaxGlFaultAt]

\* The runs of the model: the stream, the delimiter, the caller's buffer
\* and the failure (the at-th allocation fails, or the at-th fgetc).
GetlineScenarios ==
    {[data |-> d, delimiter |-> dl, buf |-> b.buf, bufsiz |-> b.bufsiz,
      fault |-> [kind |-> "none", at |-> 0]] :
        d \in Streams, dl \in {LF, "b"}, b \in CallerBuffers}
    \cup
    {[data |-> d, delimiter |-> LF, buf |-> b.buf, bufsiz |-> b.bufsiz,
      fault |-> f] :
        d \in SeqsUpTo(StreamAlphabet, MaxFaultStream),
        b \in {[buf |-> "NULL", bufsiz |-> 0],
                [buf |-> "malloced", bufsiz |-> MaxBufInit]},
        f \in GlFaults}

\* The lexer is not in use.
CmdIdle ==
    /\ entry = "none"
    /\ argv_in = <<>>
    /\ text = <<>>
    /\ emit = "NULL"
    /\ fault = NoFault
    /\ pc = "unused"
    /\ state = "STATE_DELIM"
    /\ tp = 1
    /\ tb = NULLPTR
    /\ code = SUCCESS
    /\ rock = [count |-> 0, q |-> <<>>]
    /\ nalloc = 0
    /\ emitted = <<>>
    /\ heap = <<>>
    /\ ret = "pending"
    /\ pargc = 0
    /\ pargv = NULLPTR

GetlineInit ==
    \E s \in GetlineScenarios :
        /\ fp = [data |-> s.data, pos |-> 0]
        /\ delimiter = s.delimiter
        /\ buf = IF s.buf = "NULL" THEN NULLPTR ELSE Ptr(Fresh(s.bufsiz))
        /\ bufsiz = s.bufsiz
        /\ ptr = 0
        /\ length = 0
        /\ gl_pc = "idle"
        /\ gl_fault = s.fault
        /\ gl_nalloc = 0
        /\ calls = <<>>
        /\ oob = FALSE
        /\ CmdIdle
        /\ BozoIdle

\* return r; the caller sees the buffer b.
Return(r, b) ==
    /\ length' = r
    /\ calls' = Append(calls, [length |-> r, line |-> b])
    /\ gl_pc' = "idle"

\* The caller's loop calls afs_getline (afs_getdelim) again unless the last
\* call returned -1; the call allocates the buffer if there is none.
Getdelim_call ==
    /\ gl_pc = "idle"
    /\ calls = <<>> \/ length # -1
    /\ ptr' = 0
    /\ IF buf = NULLPTR \/ bufsiz = 0
       THEN /\ bufsiz' = BUFSIZ
            /\ gl_nalloc' = gl_nalloc + 1
            /\ IF GlAllocOk(gl_nalloc + 1)
               THEN /\ buf' = Ptr(Fresh(BUFSIZ))
                    /\ gl_pc' = "loop"
                    /\ UNCHANGED <<length, calls>>
               ELSE /\ buf' = NULLPTR
                    /\ Return(-1, NULLPTR)
       ELSE /\ gl_pc' = "loop"
            /\ UNCHANGED <<buf, bufsiz, gl_nalloc, length, calls>>
    /\ UNCHANGED <<fp, delimiter, gl_fault, oob>>

\* At the end of the stream the bytes read so far are dropped.
Getdelim_eof_DropsPartial ==
    /\ gl_pc = "loop"
    /\ ReadFails \/ AtEof
    /\ Return(-1, buf)
    /\ UNCHANGED <<buf, oob>>
    /\ UNCHANGED <<fp, delimiter, bufsiz, ptr, gl_fault, gl_nalloc>>

\* int c = fgetc(fp); if (c == -1) { ... }: the end of the stream, or a
\* failed read.
Getdelim_eof ==
    /\ gl_pc = "loop"
    /\ ReadFails \/ AtEof
    /\ IF ~ReadFails /\ ptr # 0
       THEN /\ buf' = Ptr(Store(buf[1], ptr, NUL))
            /\ oob' = (oob \/ ptr >= bufsiz)
            /\ Return(ptr, buf')
       ELSE /\ Return(-1, buf)
            /\ UNCHANGED <<buf, oob>>
    /\ UNCHANGED <<fp, delimiter, bufsiz, ptr, gl_fault, gl_nalloc>>

\* *ptr++ = c; if (c == delimiter) { *ptr = '\0'; return ptr - *buf; }
\* if (ptr + 2 >= eptr) { ... realloc ... }
Getdelim_store ==
    /\ gl_pc = "loop"
    /\ ~ReadFails /\ ~AtEof
    /\ LET c == fp.data[fp.pos + 1]
           stored == Store(buf[1], ptr, c)
           grows == c # delimiter /\ ptr + 1 + 2 >= bufsiz
       IN  /\ fp' = [fp EXCEPT !.pos = @ + 1]
           /\ ptr' = ptr + 1
           /\ gl_nalloc' = IF grows THEN gl_nalloc + 1 ELSE gl_nalloc
           /\ IF c = delimiter
              THEN /\ buf' = Ptr(Store(stored, ptr + 1, NUL))
                   /\ oob' = (oob \/ ptr + 1 >= bufsiz)
                   /\ Return(ptr + 1, buf')
                   /\ UNCHANGED bufsiz
              ELSE /\ oob' = (oob \/ ptr >= bufsiz)
                   /\ IF grows /\ ~GlAllocOk(gl_nalloc + 1)
                      THEN /\ buf' = Ptr(stored)
                           /\ Return(-1, buf')
                           /\ UNCHANGED bufsiz
                      ELSE /\ bufsiz' = IF grows THEN bufsiz * 2 ELSE bufsiz
                           /\ buf' = Ptr(Resized(stored, bufsiz'))
                           /\ UNCHANGED <<length, calls, gl_pc>>
    /\ UNCHANGED <<delimiter, gl_fault>>

GetlineNext ==
    \/ Getdelim_call /\ UNCHANGED <<vars, bzvars>>
    \/ Getdelim_eof /\ UNCHANGED <<vars, bzvars>>
    \/ Getdelim_store /\ UNCHANGED <<vars, bzvars>>

SpecGetline == GetlineInit /\ [][GetlineNext]_glvars

(***************************************************************************)
(* The grammar of a line, stated on the text alone: the quoting context of *)
(* each character, the delimiters, the token runs and their values.        *)
(***************************************************************************)
RECURSIVE Ctx(_, _)
\* The quoting context in which character i of t is read (i may be
\* Len(t) + 1, the terminating NUL): "plain", inside single quotes "sq",
\* inside double quotes "dq", directly after a backslash outside quotes
\* "esc" or inside double quotes "qesc".
Ctx(t, i) ==
    IF i = 1 THEN "plain"
    ELSE LET before == Ctx(t, i - 1)
             c == t[i - 1]
         IN CASE before = "plain" ->
                    (IF c = SQ THEN "sq" ELSE IF c = DQ THEN "dq"
                     ELSE IF c = BS THEN "esc" ELSE "plain")
              [] before = "sq" -> (IF c = SQ THEN "plain" ELSE "sq")
              [] before = "dq" ->
                    (IF c = DQ THEN "plain" ELSE IF c = BS THEN "qesc" ELSE "dq")
              [] before = "esc" -> "plain"
              [] OTHER -> "dq"

\* The context at the end of the line.
EndCtx(t) == Ctx(t, Len(t) + 1)

\* Character i is whitespace outside quotes and not escaped.
IsDelimiter(t, i) == t[i] \in Whitespace /\ Ctx(t, i) = "plain"

\* Character i opens or closes a quoted segment, or is an escaping backslash.
IsSyntax(t, i) ==
    \/ Ctx(t, i) = "plain" /\ t[i] \in {SQ, DQ, BS}
    \/ Ctx(t, i) = "sq" /\ t[i] = SQ
    \/ Ctx(t, i) = "dq" /\ t[i] \in {DQ, BS}

\* The first characters of the maximal runs of non-delimiters.
RunStarts(t) ==
    {i \in 1..Len(t) : ~IsDelimiter(t, i) /\ (i = 1 \/ IsDelimiter(t, i - 1))}

RunCount(t) == Cardinality(RunStarts(t))

\* The last character of the run that starts at i.
RunEnd(t, i) ==
    CHOOSE j \in i..Len(t) :
        /\ \A k \in i..j : ~IsDelimiter(t, k)
        /\ j = Len(t) \/ IsDelimiter(t, j + 1)

\* The characters i..j of t without the quote marks and escaping backslashes.
Content(t, i, j) ==
    LET keep == {k \in i..j : ~IsSyntax(t, k)}
        nth(n) == CHOOSE k \in keep : Cardinality({x \in keep : x <= k}) = n
    IN  IF keep = {} THEN <<>>
        ELSE [n \in 1..Cardinality(keep) |-> t[nth(n)]]

RECURSIVE RunsFrom(_, _)
\* The values of the runs of t that start at i or later.
RunsFrom(t, i) ==
    IF i > Len(t) THEN <<>>
    ELSE IF IsDelimiter(t, i) THEN RunsFrom(t, i + 1)
    ELSE <<Content(t, i, RunEnd(t, i))>> \o RunsFrom(t, RunEnd(t, i) + 1)

ExpectedTokens(t) == RunsFrom(t, 1)

(***************************************************************************)
(* Vocabulary of the properties.                                           *)
(***************************************************************************)
\* An allocation or the caller's callback has failed in this run.
FaultHit ==
    \/ fault.kind = "alloc" /\ fault.at <= nalloc
    \/ fault.kind = "emit" /\ fault.at <= Len(emitted)

\* cmd_Tokenize, or cmd_Split, has returned to the caller.
Returned == pc = "returned"

Splitting == entry \in {"cmd_Split", "cmd_Join"}

\* The vector cmd_Split hands out for the strings v.
ArgvFor(v) == [i \in 1..(Len(v) + 1) |-> IF i <= Len(v) THEN Ptr(v[i]) ELSE NULLPTR]

Has(t, c) == \E i \in 1..Len(t) : t[i] = c

\* The loop is about to read character c in lexer state s.
Reading(s, c) == pc = "scan" /\ state = s /\ Cur = c

\* The iteration stored the character it read and went to state s.
Stored(s) ==
    /\ pc' = "scan"
    /\ state' = s
    /\ tb'[1].token = Append(tb[1].token, Cur)
    /\ emitted' = emitted

\* The iteration only changed the lexer state, to s.
Switched(s) ==
    /\ pc' = "scan"
    /\ state' = s
    /\ tb' = tb
    /\ emitted' = emitted

(***************************************************************************)
(* Properties.                                                             *)
(***************************************************************************)

\* C1 (round trip): when cmd_Split returns from splitting the line that
\* cmd_Join wrote for the argument list V, it has succeeded, argc is the
\* length of V and argv holds exactly the strings of V, in order, followed
\* by the terminating NULL.
C1_RoundTrip ==
    entry = "cmd_Join" /\ Returned =>
        /\ ret = SUCCESS
        /\ pargc = Len(argv_in)
        /\ pargv = Ptr(ArgvFor(argv_in))

\* A list of two arguments, with a single quote and a backslash in them, has
\* been joined and split again.
C1_Witness ==
    /\ entry = "cmd_Join"
    /\ Returned
    /\ Len(argv_in) = 2
    /\ \E i \in 1..2 : Has(argv_in[i], SQ)
    /\ \E i \in 1..2 : Has(argv_in[i], BS)
    /\ pargc = 2

\* C2 (token count): whenever cmd_Tokenize accepts a line, the number of
\* tokens it has emitted is the number of maximal runs of the line that are
\* delimited by whitespace outside quotes and not escaped by a backslash.
C2_TokenCount ==
    Returned /\ code = SUCCESS /\ emit # "NULL" =>
        /\ Len(emitted) = RunCount(text)
        /\ Splitting /\ ret = SUCCESS => pargc = RunCount(text)

\* An accepted line with whitespace that is quoted or escaped, and so does
\* not delimit, and with whitespace that does: two tokens.
C2_Witness ==
    /\ Returned
    /\ code = SUCCESS
    /\ entry = "cmd_Tokenize"
    /\ emit = "callback"
    /\ \E i \in 1..Len(text) : text[i] \in Whitespace /\ ~IsDelimiter(text, i)
    /\ \E i \in 1..Len(text) : IsDelimiter(text, i)
    /\ Len(emitted) = 2

\* C3 (modal quoting), the steps: a quote met in STATE_BARE, and the quote
\* that closes a quoted segment, only switch the lexer state: the token
\* buffer is kept and nothing is emitted; emit is called only from
\* STATE_BARE at whitespace or at the end of the line.
C3_Step ==
    /\ Reading("STATE_BARE", SQ) => Switched("STATE_SQUOTE")
    /\ Reading("STATE_BARE", DQ) => Switched("STATE_DQUOTE")
    /\ Reading("STATE_SQUOTE", SQ) => Switched("STATE_BARE")
    /\ Reading("STATE_DQUOTE", DQ) => Switched("STATE_BARE")
    /\ emitted' # emitted =>
           pc = "scan" /\ state = "STATE_BARE" /\ Cur \in Whitespace \cup {NUL}

\* C3, the result: for an accepted line without backslashes the tokens are
\* the runs between unquoted whitespace, each the concatenation of its bare
\* and quoted segments without the quote marks.
C3_Result ==
    Returned /\ code = SUCCESS /\ emit # "NULL" /\ ~Has(text, BS) =>
        emitted = ExpectedTokens(text)

\* C3: quoting is modal inside a token (every step satisfies C3_Step and
\* every state reached satisfies C3_Result).
C3_ModalQuoting == []C3_Result /\ [][C3_Step]_vars

\* A line whose only token starts bare and goes on inside quotes, with a
\* quoted space: one token holding the characters of both segments.
C3_Witness ==
    /\ Returned
    /\ code = SUCCESS
    /\ emit = "callback"
    /\ \E i \in 2..Len(text) :
          /\ text[i] \in {SQ, DQ}
          /\ Ctx(text, i) = "plain"
          /\ text[i - 1] = "a"
    /\ emitted = << <<"a", SP>> >>

\* C4 (single quotes), the steps: in STATE_SQUOTE a single quote closes the
\* segment and every other character, backslash and double quote included,
\* is stored and the state kept.
C4_Step ==
    /\ Reading("STATE_SQUOTE", SQ) => Switched("STATE_BARE")
    /\ pc = "scan" /\ state = "STATE_SQUOTE" /\ Cur \notin {SQ, NUL}
           /\ ~NeedsGrowth(tb[1])
       => Stored("STATE_SQUOTE")

\* C4, the result: a line that is one single-quoted segment yields the
\* characters between the quotes as its only token; a line 'body\'' (the
\* first single quote after the opening one follows a backslash) is rejected,
\* its last quote opening a segment that is never closed.
C4_Result ==
    Returned /\ ~FaultHit /\ Len(text) >= 2 /\ text[1] = SQ =>
        LET n == Len(text)
        IN  /\ text[n] = SQ /\ ~Has(SubSeq(text, 2, n - 1), SQ) =>
                /\ code = SUCCESS
                /\ emit # "NULL" => emitted = <<SubSeq(text, 2, n - 1)>>
            /\ n >= 4 /\ text[n] = SQ /\ text[n - 1] = SQ /\ text[n - 2] = BS
                  /\ ~Has(SubSeq(text, 2, n - 2), SQ) =>
                code = CMD_BADFORMAT

\* C4: inside single quotes every character is literal up to the next
\* single quote.
C4_SingleQuoteLiteral == []C4_Result /\ [][C4_Step]_vars

\* A single-quoted segment holding a backslash and a double quote has been
\* tokenized to the token of these two characters.
C4_Witness ==
    /\ Returned
    /\ emit = "callback"
    /\ text = <<SQ, BS, DQ, SQ>>
    /\ emitted = << <<BS, DQ>> >>

\* C5 (escape outside quotes), the steps: a backslash read in STATE_DELIM or
\* STATE_BARE stores nothing and goes to STATE_ESC; in STATE_ESC any
\* character but NUL is stored and the state becomes STATE_BARE.
C5_Step ==
    /\ Reading("STATE_DELIM", BS) => Switched("STATE_ESC")
    /\ Reading("STATE_BARE", BS) => Switched("STATE_ESC")
    /\ pc = "scan" /\ state = "STATE_ESC" /\ Cur # NUL /\ ~NeedsGrowth(tb[1])
       => Stored("STATE_BARE")

\* C5, the result: for an accepted line whose quote characters are all
\* escaped, the tokens are the runs between unescaped whitespace without
\* their escaping backslashes.
C5_Result ==
    Returned /\ code = SUCCESS /\ emit # "NULL"
        /\ (\A i \in 1..Len(text) : Ctx(text, i) \in {"plain", "esc"}) =>
        emitted = ExpectedTokens(text)

\* C5: outside quotes a backslash makes the next character literal.
C5_EscapeOutsideQuotes == []C5_Result /\ [][C5_Step]_vars

\* A line that starts with an escaped single quote followed by an escaped
\* space: one token made of the quote and the space.
C5_Witness ==
    /\ Returned
    /\ emit = "callback"
    /\ text = <<BS, SQ, BS, SP>>
    /\ emitted = << <<SQ, SP>> >>

RECURSIVE Unescape(_)
\* s with every escaping backslash dropped and the character after it kept.
Unescape(s) ==
    IF s = <<>> THEN <<>>
    ELSE IF Head(s) = BS /\ Len(s) >= 2
         THEN <<s[2]>> \o Unescape(SubSeq(s, 3, Len(s)))
         ELSE <<Head(s)>> \o Unescape(Tail(s))

\* C6 (double quotes), the steps: in STATE_DQUOTE a backslash stores nothing
\* and goes to STATE_QESC, a double quote closes the segment, any other
\* character is stored; in STATE_QESC any character but NUL is stored and
\* the state returns to STATE_DQUOTE.
C6_Step ==
    /\ Reading("STATE_DQUOTE", BS) => Switched("STATE_QESC")
    /\ Reading("STATE_DQUOTE", DQ) => Switched("STATE_BARE")
    /\ pc = "scan" /\ state = "STATE_DQUOTE" /\ Cur \notin {DQ, BS, NUL}
           /\ ~NeedsGrowth(tb[1])
       => Stored("STATE_DQUOTE")
    /\ pc = "scan" /\ state = "STATE_QESC" /\ Cur # NUL /\ ~NeedsGrowth(tb[1])
       => Stored("STATE_DQUOTE")

\* C6, the result: a line that is one double-quoted segment (every double
\* quote between the first and the last character is escaped) is accepted
\* and yields as its only token the characters between the quotes with the
\* escaping backslashes dropped.
C6_Result ==
    Returned /\ ~FaultHit /\ Len(text) >= 2 /\ text[1] = DQ
        /\ (\A i \in 2..Len(text) : Ctx(text, i) \in {"dq", "qesc"})
        /\ EndCtx(text) = "plain" =>
        /\ code = SUCCESS
        /\ emit # "NULL" =>
               emitted = <<Unescape(SubSeq(text, 2, Len(text) - 1))>>

\* C6: inside double quotes a backslash makes the next character literal and
\* every other character but the closing quote is literal.
C6_DoubleQuoteEscape == []C6_Result /\ [][C6_Step]_vars

\* A double-quoted segment holding an escaped double quote has been
\* tokenized to the token made of that double quote.
C6_Witness ==
    /\ Returned
    /\ emit = "callback"
    /\ text = <<DQ, BS, DQ, DQ>>
    /\ emitted = << <<DQ>> >>

AllWhitespace(t) == \A i \in 1..Len(t) : t[i] \in Whitespace

\* C7 (blank input): while a line that is empty or all whitespace is being
\* tokenized emit is never called, and when no allocation fails
\* cmd_Tokenize returns 0 and cmd_Split returns 0 with argc 0 and an argv
\* that holds only the terminating NULL.
C7_BlankInput ==
    pc # "join" /\ AllWhitespace(text) =>
        /\ emitted = <<>>
        /\ Returned /\ ~FaultHit =>
               /\ code = SUCCESS
               /\ Splitting =>
                      /\ ret = SUCCESS
                      /\ pargc = 0
                      /\ pargv = Ptr(<<NULLPTR>>)

\* cmd_Split has returned from a line made of the four whitespace characters.
C7_Witness ==
    /\ Returned
    /\ entry = "cmd_Split"
    /\ Len(text) = 4
    /\ \A c \in Whitespace : Has(text, c)
    /\ ret = SUCCESS
    /\ pargv = Ptr(<<NULLPTR>>)

RECURSIVE EmptyWords(_)
\* n when t is n words '' or "" separated (and possibly surrounded) by
\* whitespace, -1 when t is not of that form.
EmptyWords(t) ==
    IF t = <<>> THEN 0
    ELSE IF Head(t) \in Whitespace THEN EmptyWords(Tail(t))
    ELSE IF /\ Len(t) >= 2
            /\ t[1] \in {SQ, DQ}
            /\ t[2] = t[1]
            /\ Len(t) = 2 \/ t[3] \in Whitespace
         THEN LET r == EmptyWords(SubSeq(t, 3, Len(t)))
              IN IF r < 0 THEN -1 ELSE r + 1
         ELSE -1

\* C8 (quoted empty string): a line of n >= 1 words '' or "" separated by
\* whitespace is accepted and yields exactly n tokens, each the empty string.
C8_QuotedEmpty ==
    Returned /\ ~FaultHit /\ EmptyWords(text) >= 1 =>
        /\ code = SUCCESS
        /\ emit # "NULL" => emitted = [i \in 1..EmptyWords(text) |-> <<>>]
        /\ Splitting => pargc = EmptyWords(text)
                        /\ pargv = Ptr(ArgvFor([i \in 1..EmptyWords(text) |-> <<>>]))

\* A line of two words of adjacent quotes has been split into two empty strings.
C8_Witness ==
    /\ Returned
    /\ EmptyWords(text) = 2
    /\ emitted = << <<>>, <<>> >>
    /\ pargc = 2

\* C9 (missing closing quote), the step: reading the end of the line in
\* STATE_SQUOTE or STATE_DQUOTE sets the code to CMD_BADFORMAT and ends the
\* scan without a call of emit.
C9_Step ==
    pc = "scan" /\ state \in {"STATE_SQUOTE", "STATE_DQUOTE"} /\ Cur = NUL =>
        /\ code' = CMD_BADFORMAT
        /\ state' = "STATE_ERROR"
        /\ emitted' = emitted
        /\ rock' = rock

\* C9, the result: when the line ends inside a quoted segment and no
\* allocation or callback failed, cmd_Tokenize returns CMD_BADFORMAT, so does
\* cmd_Split (with argc 0 and argv NULL), and the tokens emitted are those of
\* the runs before the unfinished one.
C9_Result ==
    Returned /\ ~FaultHit /\ EndCtx(text) \in {"sq", "dq"} =>
        /\ code = CMD_BADFORMAT
        /\ Splitting => ret = CMD_BADFORMAT /\ pargc = 0 /\ pargv = NULLPTR
        /\ emit # "NULL" => Len(emitted) = RunCount(text) - 1

\* C9: the end of the line inside a quoted segment is the error CMD_BADFORMAT.
C9_MissingClosingQuote == []C9_Result /\ [][C9_Step]_vars

\* cmd_Split has returned from a line with a complete token followed by a
\* token that opens a double quote and never closes it.
C9_Witness ==
    /\ Returned
    /\ entry = "cmd_Split"
    /\ EndCtx(text) = "dq"
    /\ text[1] = "a"
    /\ Len(emitted) = 1
    /\ ret = CMD_BADFORMAT

\* C10 (unterminated escape), the step: reading the end of the line in
\* STATE_ESC or STATE_QESC sets the code to CMD_BADFORMAT and ends the scan
\* without a call of emit.
C10_Step ==
    pc = "scan" /\ state \in {"STATE_ESC", "STATE_QESC"} /\ Cur = NUL =>
        /\ code' = CMD_BADFORMAT
        /\ state' = "STATE_ERROR"
        /\ emitted' = emitted
        /\ rock' = rock

\* C10, the result: when the last character of the line is an escaping
\* backslash and no allocation or callback failed, cmd_Tokenize returns
\* CMD_BADFORMAT, so does cmd_Split (with argc 0 and argv NULL), and the
\* tokens emitted are those of the runs before the unfinished one.
C10_Result ==
    Returned /\ ~FaultHit /\ EndCtx(text) \in {"esc", "qesc"} =>
        /\ text[Len(text)] = BS
        /\ code = CMD_BADFORMAT
        /\ Splitting => ret = CMD_BADFORMAT /\ pargc = 0 /\ pargv = NULLPTR
        /\ emit # "NULL" => Len(emitted) = RunCount(text) - 1

\* C10: a backslash with no character after it is the error CMD_BADFORMAT.
C10_UnterminatedEscape == []C10_Result /\ [][C10_Step]_vars

\* cmd_Split has returned from a line with a complete token followed by a
\* token that ends in a backslash.
C10_Witness ==
    /\ Returned
    /\ entry = "cmd_Split"
    /\ EndCtx(text) = "esc"
    /\ text[1] = "a"
    /\ Len(emitted) = 1
    /\ ret = CMD_BADFORMAT

(***************************************************************************)
(* C11.  The codes of the two kinds of malformed line.                     *)
(***************************************************************************)
\* C11 as stated: the two kinds of malformed line are reported by different
\* values; a line that ends inside a quote returns CMD_BADFORMAT, and a line
\* that ends in an escaping backslash returns an error code other than that.
C11_DistinctDiagnoses ==
    Returned /\ ~FaultHit =>
        /\ EndCtx(text) \in {"sq", "dq"} => code = CMD_BADFORMAT
        /\ EndCtx(text) \in {"esc", "qesc"} =>
              code \notin {SUCCESS, CMD_BADFORMAT}

\* C11, amended: cmd_Tokenize and cmd_Split report every malformed line,
\* whether it ends inside a quote or in an escaping backslash, by the one
\* value CMD_BADFORMAT, and report nothing else by it: the result tells a
\* malformed line from a well-formed one, not one defect from the other.
C11_OneBadFormatCode ==
    Returned /\ ~FaultHit =>
        /\ code = CMD_BADFORMAT <=> EndCtx(text) # "plain"
        /\ code # CMD_BADFORMAT => code = SUCCESS
        /\ Splitting => ret = code

\* cmd_Tokenize has returned CMD_BADFORMAT from a line whose last character
\* is a backslash inside an open double quote.
C11_Witness ==
    /\ Returned
    /\ entry = "cmd_Tokenize"
    /\ ~FaultHit
    /\ EndCtx(text) = "qesc"
    /\ code = CMD_BADFORMAT

(***************************************************************************)
(* C12.  The calls of emit during one run of cmd_Tokenize.                 *)
(***************************************************************************)
\* The runs of t whose closing whitespace, or the end of t, is among the
\* first p - 1 characters (the NUL counted as character Len(t) + 1).
Completed(t, p) == {i \in RunStarts(t) : RunEnd(t, i) + 1 < p}

\* C12, the step: an iteration calls emit at most once, with the content of
\* the token buffer, and only when it reads whitespace or the end of the
\* line in STATE_BARE; with a non-NULL emit such an iteration does call it,
\* unless the copy of the token cannot be allocated.
C12_Step ==
    /\ emitted' # emitted =>
          /\ pc = "scan" /\ state = "STATE_BARE"
          /\ Cur \in Whitespace \cup {NUL}
          /\ emitted' = Append(emitted, tb[1].token)
    /\ /\ pc = "scan" /\ state = "STATE_BARE" /\ Cur \in Whitespace \cup {NUL}
       /\ emit # "NULL" /\ AllocOk(nalloc + 1)
       => Len(emitted') = Len(emitted) + 1

\* C12, the calls so far: while the loop runs, the tokens emit was called
\* with are, in order and once each, the unescaped values of the runs that
\* have been closed by the characters read so far, and the consumer has
\* received them in that order.
C12_Result ==
    pc = "scan" /\ emit # "NULL" /\ state # "STATE_ERROR" =>
        /\ emitted = SubSeq(ExpectedTokens(text), 1,
                            Cardinality(Completed(text, tp)))
        /\ rock.q = emitted
        /\ rock.count = Len(emitted)

\* C12: emit is called once per completed token, in the order in which the
\* tokens end, with the unescaped value, when the token's closing whitespace
\* or the end of the line is read.
C12_EmitPerToken == []C12_Result /\ [][C12_Step]_vars

\* The caller's callback has received two tokens, the first an escaped
\* space closed by whitespace, the second closed by the end of the line.
C12_Witness ==
    /\ pc = "scan"
    /\ state = "STATE_END"
    /\ entry = "cmd_Tokenize"
    /\ emit = "callback"
    /\ text = <<BS, SP, SP, "a">>
    /\ emitted = << <<SP>>, <<"a">> >>

(***************************************************************************)
(* C13.  A call of emit that returns a non-zero code.                      *)
(***************************************************************************)
\* The heap entry of the token the last call of emit rejected, 0 if the
\* last call was not rejected: the caller's callback fails at the call the
\* fault names; append_token fails when the allocation of its node, the one
\* after the token copy, fails.
Rejected ==
    IF emit = "callback" /\ fault.kind = "emit" /\ fault.at = Len(emitted)
    THEN Len(emitted) + 1
    ELSE IF /\ emit = "append_token" /\ fault.kind = "alloc"
            /\ 1 < fault.at /\ fault.at <= Len(heap)
            /\ heap[fault.at - 1].kind = "token"
    THEN fault.at - 1
    ELSE 0

\* The code the rejecting call of emit returned.
RejectCode == IF emit = "callback" THEN EMIT_FAILED ELSE ENOMEM

\* C13, the step: once emit has rejected a token, no step calls emit, moves
\* the read position, changes the code or frees the token again.
C13_Step ==
    Rejected # 0 =>
        /\ emitted' = emitted
        /\ tp' = tp
        /\ code' = code
        /\ pc' # "scan"
        /\ heap'[Rejected] = heap[Rejected]

\* C13, the state: after emit rejected a token the loop is left, the read
\* position is still at the character that closed the rejected token, the
\* code is the one emit returned (it is what cmd_Tokenize and cmd_Split
\* return), the tokens accepted before stay with the consumer, and the
\* rejected token was freed once, by cmd_Tokenize, without having been handed
\* to the list or kept by the callback.
C13_Result ==
    Rejected # 0 =>
        /\ pc # "scan"
        /\ code = RejectCode
        /\ Cur \in Whitespace \cup {NUL}
        /\ Cardinality(Completed(text, tp + 1)) = Len(emitted)
        /\ rock.count = Len(emitted) - 1
        /\ heap[Rejected] = [kind |-> "token", holder |-> "lexer", frees |-> 1]
        /\ Returned /\ Splitting => ret = RejectCode

\* C13: a non-zero code from emit ends the run at once with that code, and
\* the rejected token is freed once by cmd_Tokenize.
C13_EmitFailureStops == []C13_Result /\ [][C13_Step]_vars

\* cmd_Tokenize has returned the callback's code: the callback rejected the
\* first of the two tokens of the line, and the second was never read.
C13_Witness ==
    /\ Returned
    /\ entry = "cmd_Tokenize"
    /\ emit = "callback"
    /\ fault = [kind |-> "emit", at |-> 1]
    /\ text = <<"a", SP, "a">>
    /\ emitted = << <<"a">> >>
    /\ tp = 2
    /\ code = EMIT_FAILED
    /\ heap[2].frees = 1

(***************************************************************************)
(* C14.  What the consumer has received when a run ends in an error.       *)
(***************************************************************************)
\* C14 as stated: when cmd_Tokenize returns an error for a malformed line,
\* its emit callback has not been called with any token of the line.
C14_LexerDeliversNothing ==
    Returned /\ ~FaultHit /\ emit = "callback" /\ code # SUCCESS =>
        emitted = <<>> /\ rock.q = <<>>

\* C14, amended: it is cmd_Split that surfaces no partial result (an error
\* leaves argc 0 and argv NULL); cmd_Tokenize has by then called emit with
\* every token completed before the error, and the caller's callback keeps
\* them: for a malformed line these are the tokens of all runs but the last.
C14_SplitSurfacesNothing ==
    Returned /\ code # SUCCESS =>
        /\ Splitting => pargc = 0 /\ pargv = NULLPTR /\ ret = code
        /\ emit = "callback" =>
              /\ rock.q = SubSeq(emitted, 1, rock.count)
              /\ ~FaultHit =>
                    rock.q = SubSeq(ExpectedTokens(text), 1, RunCount(text) - 1)

\* cmd_Tokenize has returned CMD_BADFORMAT for a line whose second token
\* opens a quote that is never closed; the callback holds the first token.
C14_Witness ==
    /\ Returned
    /\ entry = "cmd_Tokenize"
    /\ emit = "callback"
    /\ text = <<"a", SP, SQ>>
    /\ code = CMD_BADFORMAT
    /\ rock.q = << <<"a">> >>

(***************************************************************************)
(* C15.  A failed cmd_Split.                                               *)
(***************************************************************************)
\* The objects allocated so far: the heap entries of the allocations that
\* succeeded (a resize of the token buffer makes no new object).
Objects == {k \in DOMAIN heap : heap[k].kind \notin {"failed", "realloc"}}

\* The allocation that failed in this run was of this kind: the token
\* buffer is the first allocation of a run, a token copy follows the buffer
\* or a list node, a list node follows a token copy, and the argv array is
\* the allocation cmd_Split makes after cmd_Tokenize returned 0.
FailedAlloc ==
    IF ~(fault.kind = "alloc" /\ fault.at <= Len(heap)) THEN "none"
    ELSE IF fault.at = 1 THEN "buffer"
    ELSE IF heap[fault.at - 1].kind = "token" THEN "node"
    ELSE IF code = SUCCESS THEN "vector"
    ELSE "token"

\* C15: when cmd_Split has returned a non-zero code, that code is ENOMEM
\* if an allocation failed and CMD_BADFORMAT otherwise, *pargc is 0, *pargv
\* is NULL, and every object allocated during the call (token buffer, token
\* copies, list nodes) has been freed exactly once.
C15_FailedSplit ==
    Returned /\ Splitting /\ ret # SUCCESS =>
        /\ ret = IF FailedAlloc # "none" THEN ENOMEM ELSE CMD_BADFORMAT
        /\ FailedAlloc = "none" => EndCtx(text) # "plain"
        /\ pargc = 0
        /\ pargv = NULLPTR
        /\ \A k \in Objects : heap[k].frees = 1
        /\ FailedAlloc # "vector" => code = ret

\* cmd_Split has returned ENOMEM because the argv array for its one token
\* could not be allocated: the buffer, the token and its node are freed.
C15_Witness ==
    /\ Returned
    /\ entry = "cmd_Split"
    /\ ret = ENOMEM
    /\ FailedAlloc = "vector"
    /\ Len(emitted) = 1
    /\ heap[2] = [kind |-> "token", holder |-> "list", frees |-> 1]
    /\ heap[3] = [kind |-> "node", holder |-> "list", frees |-> 1]
    /\ pargv = NULLPTR

(***************************************************************************)
(* C16.  cmd_Split and the tokens cmd_Tokenize emits.                      *)
(***************************************************************************)
\* C16: a cmd_Tokenize run that returns 0 has handed the caller's callback
\* the tokens of the text, and a cmd_Split that returns 0 has made the same
\* calls of emit for that text; *pargc is their number, the vector has
\* argc + 1 entries, entry i is a non-NULL pointer to the i-th emitted token
\* for every i up to argc, and the last entry is NULL.
C16_SplitAgreesWithLexer ==
    /\ Returned /\ entry = "cmd_Tokenize" /\ emit = "callback" /\ code = SUCCESS
       => emitted = ExpectedTokens(text) /\ rock.q = emitted
    /\ Returned /\ Splitting /\ ret = SUCCESS =>
        /\ emitted = ExpectedTokens(text)
        /\ pargc = Len(emitted)
        /\ pargv # NULLPTR
        /\ DOMAIN pargv[1] = 1..(pargc + 1)
        /\ \A i \in 1..pargc :
              pargv[1][i] # NULLPTR /\ pargv[1][i][1] = emitted[i]
        /\ pargv[1][pargc + 1] = NULLPTR

\* cmd_Split has returned the vector of a line with two different tokens,
\* the second one quoted.
C16_Witness ==
    /\ Returned
    /\ entry = "cmd_Split"
    /\ ret = SUCCESS
    /\ text = <<"a", SP, SQ, SQ>>
    /\ pargc = 2
    /\ pargv = Ptr(<<Ptr(<<"a">>), Ptr(<<>>), NULLPTR>>)

(***************************************************************************)
(* C17.  cmd_FreeSplit.                                                    *)
(***************************************************************************)
\* The objects a step frees.
FreedByStep == {k \in DOMAIN heap : heap'[k].frees # heap[k].frees}

\* C17, the step: a call of cmd_FreeSplit on a vector frees, once each, the
\* argc tokens of the vector and the vector, and nothing else; a call on a
\* NULL pointer frees nothing; either way the pointer is NULL afterwards.
C17_Step ==
    pc \in {"returned", "released"} /\ Splitting =>
        /\ pargv' = NULLPTR
        /\ DOMAIN heap' = DOMAIN heap
        /\ \A k \in FreedByStep : heap'[k].frees = heap[k].frees + 1
        /\ IF pargv # NULLPTR
           THEN /\ {k \in FreedByStep : heap[k].kind = "token"}
                      = HeldBy(heap, "argv")
                /\ Cardinality(HeldBy(heap, "argv")) = pargc
                /\ Cardinality({k \in FreedByStep : heap[k].kind = "vector"}) = 1
                /\ Cardinality(FreedByStep) = pargc + 1
           ELSE heap' = heap

\* C17, the state: after cmd_FreeSplit, however often it was called and
\* whether cmd_Split had succeeded or failed, the pointer is NULL and every
\* object allocated has been freed exactly once.
C17_Result ==
    pc = "released" =>
        /\ pargv = NULLPTR
        /\ \A k \in Objects : heap[k].frees = 1

\* C17: cmd_FreeSplit frees the tokens and the vector once, sets the pointer
\* to NULL, and does nothing when the pointer is NULL already.
C17_FreeSplit == []C17_Result /\ [][C17_Step]_vars

\* cmd_FreeSplit has released the vector of a successful cmd_Split with two
\* tokens: both tokens and the vector, the last allocation, are freed once.
C17_Witness ==
    /\ pc = "released"
    /\ entry = "cmd_Split"
    /\ ret = SUCCESS
    /\ pargc = 2
    /\ pargv = NULLPTR
    /\ heap[Len(heap)] = [kind |-> "vector", holder |-> "pargv", frees |-> 1]
    /\ heap[2] = [kind |-> "token", holder |-> "argv", frees |-> 1]

(***************************************************************************)
(* C18.  cmd_Join: which arguments are quoted.                             *)
(***************************************************************************)
\* cmd_Join has written the line for argv_in.
Joined == entry = "cmd_Join" /\ pc = "split"

\* The first character of the i-th run of t.
NthRun(t, i) ==
    CHOOSE s \in RunStarts(t) : Cardinality({r \in RunStarts(t) : r <= s}) = i

\* The i-th run of t, as written in t.
Segment(t, i) == SubSeq(t, NthRun(t, i), RunEnd(t, NthRun(t, i)))

\* The line is the one the test expects, if argv_in is the argument list of
\* one of the test cases lo..hi.
ExpectedLine(lo, hi) ==
    \A i \in lo..hi :
        argv_in = join_test_cases[i].argv => text = join_test_cases[i].line

\* An argument cmd_Join may write as it is.
Bare(a) == a # <<>> /\ \A j \in 1..Len(a) : a[j] \in SafeChars

\* C18: the line has one run per argument; the run of a non-empty argument
\* of alphanumerics and , . - _ / : @ is the argument itself; the run of any
\* other argument (empty, or with whitespace, a quote, a backslash, ! or ?)
\* is longer than the argument and starts and ends with a single quote;
\* equal arguments are written alike wherever they stand; the cases of the
\* test with spaces and punctuation give the lines the test expects.
C18_QuoteWhenNeeded ==
    Joined =>
        /\ RunCount(text) = Len(argv_in)
        /\ \A i \in 1..Len(argv_in) :
              LET a == argv_in[i]
                  seg == Segment(text, i)
              IN  /\ Bare(a) => seg = a
                  /\ ~Bare(a) =>
                        /\ Len(seg) >= Len(a) + 2
                        /\ seg[1] = SQ /\ seg[Len(seg)] = SQ
                  /\ (\E j \in 1..Len(a) :
                          a[j] \in Whitespace \cup {SQ, DQ, BS, "!", "?"})
                     => seg # a /\ seg[1] = SQ
                  /\ \A k \in 1..Len(argv_in) :
                        argv_in[k] = a => Segment(text, k) = seg
        /\ ExpectedLine(4, 10)

\* cmd_Join has written a bare comma and a quoted exclamation mark.
C18_Witness ==
    /\ Joined
    /\ argv_in = << <<",">>, <<"!">> >>
    /\ text = <<",", SP, SQ, "!", SQ>>

(***************************************************************************)
(* C19.  cmd_Join: the quoted form.                                        *)
(***************************************************************************)
\* The number of single quotes among the first n characters of a.
QuotesBefore(a, n) == Cardinality({j \in 1..n : a[j] = SQ})

\* Where the j-th character of a is written in the quoted form of a: after
\* the opening quote, each earlier character taking one place and each
\* earlier single quote five.
PlaceOf(a, j) == 1 + j + 4 * QuotesBefore(a, j - 1)

\* C19: the run written for an argument that is quoted starts and ends with
\* a single quote and holds between them, in order and with nothing else,
\* each character of the argument as it is (backslashes and double quotes
\* included) and '"'"' for each single quote; the cases of the test with
\* quotes and backslashes give the lines the test expects.
C19_QuotedForm ==
    Joined =>
        /\ \A i \in 1..Len(argv_in) :
              LET a == argv_in[i]
                  seg == Segment(text, i)
              IN  ~Bare(a) =>
                    /\ Len(seg) = Len(a) + 2 + 4 * QuotesBefore(a, Len(a))
                    /\ seg[1] = SQ
                    /\ seg[Len(seg)] = SQ
                    /\ \A j \in 1..Len(a) :
                          IF a[j] = SQ
                          THEN SubSeq(seg, PlaceOf(a, j), PlaceOf(a, j) + 4)
                                   = <<SQ, DQ, SQ, DQ, SQ>>
                          ELSE seg[PlaceOf(a, j)] = a[j]
        /\ ExpectedLine(11, 25)

\* cmd_Join has written an argument made of a backslash, a single quote and
\* a double quote: only the single quote is replaced.
C19_Witness ==
    /\ Joined
    /\ argv_in = << <<BS, SQ, DQ>> >>
    /\ text = <<SQ, BS, SQ, DQ, SQ, DQ, SQ, DQ, SQ>>

(***************************************************************************)
(* C20.  cmd_Join: the line as a whole.                                    *)
(***************************************************************************)
\* C20, the step: the call of cmd_Join returns with a line; it has no
\* failing outcome and leaves the argument list as it was.
C20_Step ==
    pc = "join" => pc' = "split" /\ argv_in' = argv_in

\* C20, the line: it is empty for the empty argument list; otherwise the
\* run of the first argument starts at the first character, the run of the
\* last argument ends at the last, consecutive runs have exactly one space
\* between them, and the i-th run is the writing of the i-th argument; n
\* empty arguments give n times '' with single spaces between; the first
\* cases of the test give the lines the test expects.
C20_Result ==
    Joined =>
        LET n == Len(argv_in)
            start(i) == NthRun(text, i)
            end(i) == RunEnd(text, NthRun(text, i))
        IN  /\ n = 0 => text = <<>>
            /\ RunCount(text) = n
            /\ n > 0 => start(1) = 1 /\ end(n) = Len(text)
            /\ \A i \in 1..(n - 1) :
                  text[end(i) + 1] = SP /\ start(i + 1) = end(i) + 2
            /\ \A i \in 1..n : Content(text, start(i), end(i)) = argv_in[i]
            /\ (n > 0 /\ \A i \in 1..n : argv_in[i] = <<>>) =>
                  /\ Len(text) = 3 * n - 1
                  /\ \A p \in 1..Len(text) :
                        text[p] = IF p % 3 = 0 THEN SP ELSE SQ
            /\ ExpectedLine(1, 6)

\* C20: cmd_Join always gives a line, the writings of the arguments in
\* order with single spaces between them and none before or after.
C20_JoinedLine == []C20_Result /\ [][C20_Step]_vars

\* cmd_Join has written three empty arguments.
C20_Witness ==
    /\ Joined
    /\ argv_in = << <<>>, <<>>, <<>> >>
    /\ text = <<SQ, SQ, SP, SQ, SQ, SP, SQ, SQ>>

(***************************************************************************)
(* The lines of a stream, stated on its bytes alone.                       *)
(***************************************************************************)
\* The index of the last byte of each line of d: every delimiter, and the
\* last byte of d if it is not one.
LineEnds(d, dl) ==
    {i \in 1..Len(d) : d[i] = dl \/ i = Len(d)}

\* The last byte of the k-th line; 0 for k = 0.
LineEnd(d, dl, k) ==
    IF k = 0 THEN 0
    ELSE CHOOSE e \in LineEnds(d, dl) :
             Cardinality({x \in LineEnds(d, dl) : x <= e}) = k

\* The k-th line of d, its delimiter included.
Line(d, dl, k) == SubSeq(d, LineEnd(d, dl, k - 1) + 1, LineEnd(d, dl, k))

\* No allocation and no read has failed or is going to fail in this run.
GlNoFault == gl_fault.kind = "none"

(***************************************************************************)
(* C21.  Repeated calls of afs_getline on one stream.                      *)
(***************************************************************************)
\* C21, the step: an iteration of the loop reads at most one byte of the
\* stream, and a call returns only from inside the loop or when the buffer
\* cannot be allocated.
C21_Step ==
    /\ fp'.pos \in {fp.pos, fp.pos + 1}
    /\ fp'.data = fp.data
    /\ Len(calls') = Len(calls) + 1 => gl_pc' = "idle"

\* C21, the calls: when no allocation or read fails and no byte is written
\* outside the buffer, the k-th call to return has returned the length of
\* the k-th line of the stream, delimiter counted, and left that line in
\* the buffer followed by a NUL, inside the allocation; between calls the
\* stream is read exactly up to the end of the last line returned; the
\* call after the last line returns -1.
C21_Result ==
    gl_pc = "idle" /\ GlNoFault /\ ~oob =>
        LET n == Cardinality(LineEnds(fp.data, delimiter))
        IN  /\ Len(calls) <= n + 1
            /\ fp.pos = LineEnd(fp.data, delimiter,
                                IF Len(calls) <= n THEN Len(calls) ELSE n)
            /\ \A k \in 1..Len(calls) :
                  IF k <= n
                  THEN /\ calls[k].length = Len(Line(fp.data, delimiter, k))
                       /\ calls[k].line # NULLPTR
                       /\ calls[k].length < Len(calls[k].line[1])
                       /\ CString(calls[k].line[1])
                              = Line(fp.data, delimiter, k)
                  ELSE calls[k].length = -1
            /\ buf # NULLPTR => Len(buf[1]) = bufsiz

\* C21: repeated calls return the lines of the stream one per call, in
\* order, each byte once.
C21_LinesInOrder == []C21_Result /\ [][C21_Step]_glvars

\* Two calls of afs_getline that started without a buffer: the first
\* returned a line of four bytes, for which the buffer was doubled, the
\* second an empty line.
C21_Witness ==
    /\ gl_pc = "idle"
    /\ GlNoFault
    /\ delimiter = LF
    /\ fp.data = <<"a", "b", "a", LF, LF>>
    /\ Len(calls) = 2
    /\ calls[1].length = 4
    /\ calls[2].length = 1
    /\ bufsiz = 2 * BUFSIZ
    /\ CString(buf[1]) = <<LF>>
    /\ ~oob

(***************************************************************************)
(* C22.  afs_getdelim at the end of the stream.                            *)
(***************************************************************************)
\* C22, the step: when the loop finds the end of the stream (and the read
\* has not failed) the call returns at once: -1 if no byte was read in this
\* call, else the number of bytes read in this call; no byte of the stream
\* is consumed and the buffer is not resized.
C22_Step ==
    gl_pc = "loop" /\ AtEof /\ ~ReadFails =>
        /\ gl_pc' = "idle"
        /\ Len(calls') = Len(calls) + 1
        /\ length' = (IF ptr = 0 THEN -1 ELSE ptr)
        /\ fp' = fp
        /\ bufsiz' = bufsiz

\* C22, the data: after a call that returned a count, the buffer holds,
\* NUL-terminated, exactly the bytes consumed from the stream by this call
\* (none added); no byte before the last is the delimiter, and the last
\* byte is the delimiter unless the stream was at its end.
C22_Result ==
    gl_pc = "idle" /\ calls # <<>> /\ length # -1 /\ ~oob =>
        LET data == CString(buf[1])
        IN  /\ length > 0
            /\ length <= fp.pos
            /\ data = SubSeq(fp.data, fp.pos - length + 1, fp.pos)
            /\ \A i \in 1..(length - 1) : data[i] # delimiter
            /\ data[length] = delimiter <=> fp.data[fp.pos] = delimiter
            /\ data[length] # delimiter => AtEof

\* C22: at the end of the stream afs_getdelim returns -1 when it has read
\* nothing and the bytes it has read otherwise, without adding a delimiter.
C22_EndOfFile == []C22_Result /\ [][C22_Step]_glvars

\* A stream that ends without a delimiter: the first call returned its two
\* bytes, the second found the end of the stream at once and returned -1.
C22_Witness ==
    /\ gl_pc = "idle"
    /\ delimiter = LF
    /\ fp.data = <<"a", "b">>
    /\ Len(calls) = 2
    /\ calls[1].length = 2
    /\ CString(calls[1].line[1]) = <<"a", "b">>
    /\ calls[2].length = -1
    /\ GlNoFault
    /\ ~oob

(***************************************************************************)
(* The BosConfig file (src/bozo/bosconfig.c): text helpers.  A line is a   *)
(* sequence of characters; the C library functions the parsers call are    *)
(* computed on it character by character.                                  *)
(***************************************************************************)
BZSYNTAX   == "BZSYNTAX"
BZBADTYPE  == "BZBADTYPE"
BZNOCREATE == "BZNOCREATE"
BZDOM      == "BZDOM"
ENOENT     == "ENOENT"
EACCES     == "EACCES"

BSTAT_SHUTDOWN == 0
BSTAT_NORMAL   == 1

Digits == {"0", "1", "2", "3", "4", "5", "6", "7", "8", "9"}

DigitVal(c) ==
    CASE c = "0" -> 0 [] c = "1" -> 1 [] c = "2" -> 2 [] c = "3" -> 3
      [] c = "4" -> 4 [] c = "5" -> 5 [] c = "6" -> 6 [] c = "7" -> 7
      [] c = "8" -> 8 [] c = "9" -> 9

\* strncmp(buffer, tag, strlen(tag)) == 0
StartsWith(buffer, tag) ==
    /\ Len(buffer) >= Len(tag)
    /\ SubSeq(buffer, 1, Len(tag)) = tag

\* buffer + n
From(buffer, n) == SubSeq(buffer, n + 1, Len(buffer))

\* The first index at or after i whose character is not in S; Len(t) + 1
\* if there is none.
SkipAll(t, i, S) ==
    CHOOSE j \in i..(Len(t) + 1) :
        /\ j = Len(t) + 1 \/ t[j] \notin S
        /\ \A k \in i..(j - 1) : t[k] \in S

\* The first index at or after i whose character is in S; Len(t) + 1 if
\* there is none.
FindAny(t, i, S) ==
    CHOOSE j \in i..(Len(t) + 1) :
        /\ j = Len(t) + 1 \/ t[j] \in S
        /\ \A k \in i..(j - 1) : t[k] \notin S

\* The value of a run of decimal digits.
RECURSIVE DecValue(_)
DecValue(ds) ==
    IF ds = <<>> THEN 0
    ELSE 10 * DecValue(SubSeq(ds, 1, Len(ds) - 1)) + DigitVal(ds[Len(ds)])

\* One %d or %hd conversion of sscanf at index i of t: white space is
\* skipped, then an optional sign and at least one digit are read.
\* "eof" tells that the input ended before the conversion started.
ScanInt(t, i) ==
    LET Converted(s, signed, d, e, v) ==
            [ok    |-> e > d,
             eof   |-> s > Len(t),
             value |-> IF signed /\ t[s] = "-" THEN 0 - v ELSE v,
             next  |-> e]
        Number(s, signed, d, e) ==
            Converted(s, signed, d, e, DecValue(SubSeq(t, d, e - 1)))
        DigitsAt(s, signed, d) == Number(s, signed, d, SkipAll(t, d, Digits))
        Sign(s, signed) == DigitsAt(s, signed, IF signed THEN s + 1 ELSE s)
        Start(s) == Sign(s, s <= Len(t) /\ t[s] \in {"+", "-"})
    IN  Start(SkipAll(t, i, Whitespace))

\* strtok_r(text, " ", &save) continued at index i: the next token and the
\* index the scan continues from; no token when only delimiters are left.
Strtok(t, i) ==
    LET s == SkipAll(t, i, {SP})
        e == FindAny(t, s, {SP})
    IN  IF s > Len(t)
        THEN [token |-> NULLPTR, save |-> s]
        ELSE [token |-> Ptr(SubSeq(t, s, e - 1)),
              save  |-> IF e > Len(t) THEN e ELSE e + 1]

\* strtok_r(NULL, "", &save): the rest of the text, if any.
StrtokRest(t, i) ==
    IF i > Len(t) THEN NULLPTR ELSE Ptr(SubSeq(t, i, Len(t)))


(***************************************************************************)
(* The parsers of the BosConfig tags.  Each takes the text after the tag   *)
(* and the value its rock points to, and gives the return code and the     *)
(* value the rock points to afterwards.                                    *)
(***************************************************************************)
\* The number of bits of a short.
ShortBits == 16
SHRT_MAX == 2 ^ (ShortBits - 1) - 1
SHRT_MIN == 0 - 2 ^ (ShortBits - 1)

\* What a %hd conversion can leave in the short when the number read does
\* not fit (the C standard leaves it undefined): the low bits of the
\* number, as the usual C libraries do, or the nearest short.
ShortStored(v) ==
    IF SHRT_MIN <= v /\ v <= SHRT_MAX THEN {v}
    ELSE {((v - SHRT_MIN) % 2 ^ ShortBits) + SHRT_MIN,
          IF v > SHRT_MAX THEN SHRT_MAX ELSE SHRT_MIN}

\* sscanf(text, "%d%c", &tvalue, &junk): the number of conversions (-1 for
\* EOF) and the integer read.
Sscanf_d_c(txt) ==
    LET Converted(r) ==
            [count |-> IF ~r.ok THEN (IF r.eof THEN -1 ELSE 0)
                       ELSE IF r.next <= Len(txt) THEN 2 ELSE 1,
             tvalue |-> r.value]
    IN  Converted(ScanInt(txt, 1))

\* Any trailing character makes the integer valid.
parse_int_IgnoresJunk(txt, value) ==
    LET s == Sscanf_d_c(txt)
    IN  IF s.count < 1
        THEN [code |-> BZSYNTAX, value |-> value]
        ELSE [code |-> SUCCESS, value |-> s.tvalue]

parse_int(txt, value) ==
    LET Scanned(s) ==
            IF s.count # 1
            THEN [code |-> BZSYNTAX, value |-> value]
            ELSE [code |-> SUCCESS, value |-> s.tvalue]
    IN  Scanned(Sscanf_d_c(txt))

parse_bool(txt, value) ==
    LET Parsed(r) ==
            IF r.code # SUCCESS THEN [code |-> r.code, value |-> value]
            ELSE IF r.value # 0 /\ r.value # 1
            THEN [code |-> BZSYNTAX, value |-> value]
            ELSE [code |-> SUCCESS, value |-> r.value]
    IN  Parsed(parse_int(txt, value))

\* sscanf(text, "%d %hd %hd %hd %hd%c", ...): the number of conversions and
\* the five numbers read (before they are stored).
Sscanf_ktime(txt) ==
    LET Converted(mask, day, hour, min, sec) ==
            [count |->
                IF ~mask.ok THEN (IF mask.eof THEN -1 ELSE 0)
                ELSE IF ~day.ok THEN 1
                ELSE IF ~hour.ok THEN 2
                ELSE IF ~min.ok THEN 3
                ELSE IF ~sec.ok THEN 4
                ELSE IF sec.next <= Len(txt) THEN 6 ELSE 5,
             mask |-> mask.value, day |-> day.value, hour |-> hour.value,
             min |-> min.value, sec |-> sec.value]
        After4(mask, day, hour, min) ==
            Converted(mask, day, hour, min, ScanInt(txt, min.next))
        After3(mask, day, hour) ==
            After4(mask, day, hour, ScanInt(txt, hour.next))
        After2(mask, day) == After3(mask, day, ScanInt(txt, day.next))
        After1(mask) == After2(mask, ScanInt(txt, mask.next))
    IN  After1(ScanInt(txt, 1))

\* The range checks of parse_ktime on the stored values and the assignment
\* of the fields.
CheckedKtime(value, mask, day, hour, min, sec) ==
    IF \/ day < 0 \/ 6 < day
       \/ hour < 0 \/ 23 < hour
       \/ min < 0 \/ 59 < min
       \/ sec < 0 \/ 59 < sec
    THEN [code |-> BZSYNTAX, value |-> value]
    ELSE [code |-> SUCCESS,
          value |-> [mask |-> mask, day |-> day, hour |-> hour,
                     min |-> min, sec |-> sec]]

\* The results parse_ktime can give: one, unless a number does not fit a
\* short.
parse_ktime(txt, value) ==
    LET Scanned(s) ==
            IF s.count # 5
            THEN {[code |-> BZSYNTAX, value |-> value]}
            ELSE {CheckedKtime(value, s.mask, day, hour, min, sec) :
                      day \in ShortStored(s.day),
                      hour \in ShortStored(s.hour),
                      min \in ShortStored(s.min),
                      sec \in ShortStored(s.sec)}
    IN  Scanned(Sscanf_ktime(txt))


(***************************************************************************)
(* The bnode library as the reader and the writer of the BosConfig file    *)
(* use it, with the bnode types of tests/bozo/mock-bnode.c.                *)
(***************************************************************************)
TYPE_simple == <<"s", "i", "m", "p", "l", "e">>
TYPE_cron == <<"c", "r", "o", "n">>
TYPE_fs == <<"f", "s">>
TYPE_dafs == <<"d", "a", "f", "s">>
TYPE_test == <<"t", "e", "s", "t">>

\* mock_bnode_register: the registered types and the number of leading
\* parameters each type's create function requires (the others must be
\* NULL); the "test" type takes any parameters.
RegisteredTypes == {TYPE_simple, TYPE_cron, TYPE_fs, TYPE_dafs, TYPE_test}

RequiredParms(type) ==
    CASE type = TYPE_simple -> 1
      [] type = TYPE_cron -> 2
      [] type = TYPE_fs -> 3
      [] type = TYPE_dafs -> 4

\* The create function of the type: whether it returns a bnode.
mock_create(type, args) ==
    \/ type = TYPE_test
    \/ /\ type # TYPE_test
       /\ \A i \in 1..5 : (args[i] # NULLPTR) <=> (i <= RequiredParms(type))

\* bnode_Create(type, instance, &bnode, a0 .. a4, notifier, fileGoal, 0):
\* the return code and the list of bnodes afterwards.  The new bnode is
\* the last of the list, in the 'temporarily shutdown' state.
bnode_Create(type, instance, args, notifier, fileGoal, bnodes) ==
    IF type \notin RegisteredTypes
    THEN [code |-> BZBADTYPE, bnodes |-> bnodes]
    ELSE IF ~mock_create(type, args)
    THEN [code |-> BZNOCREATE, bnodes |-> bnodes]
    ELSE [code |-> SUCCESS,
          bnodes |-> Append(bnodes,
                        [type |-> type, name |-> instance, args |-> args,
                         notifier |-> notifier, fileGoal |-> fileGoal,
                         status |-> BSTAT_SHUTDOWN])]

\* bnode_SetStat(bnode, status) on the i-th bnode of the list.
bnode_SetStat(bnodes, i, status) == [bnodes EXCEPT ![i].status = status]

\* bnode_GetParm(bnode, index, &parm): mock_getparm.
bnode_GetParm(bnode, index) ==
    IF index < 0 \/ index >= 5 \/ bnode.args[index + 1] = NULLPTR
    THEN [code |-> BZDOM, parm |-> NULLPTR]
    ELSE [code |-> SUCCESS, parm |-> bnode.args[index + 1]]


(***************************************************************************)
(* The parsers of the bnode blocks.                                        *)
(***************************************************************************)
\* Whether the k-th allocation of the parsers (calloc, strdup) succeeds.
BzAllocOk(k) == ~(bz_fault.kind = "alloc" /\ bz_fault.at = k)

\* The allocations free_bnode_info releases.
FreeCount(bi) ==
    IF bi = NULLPTR THEN 0
    ELSE 3 + (IF bi[1].notifier # NULLPTR THEN 1 ELSE 0) + bi[1].nparms

NoParms == [i \in 1..5 |-> NULLPTR]

\* parse_bnode(text, &bnode_info, ...) when n allocations were made before:
\* the return code, *value afterwards, and the allocations attempted and
\* kept.
parse_bnode(txt, value, n) ==
    LET type       == Strtok(txt, 1)
        instance   == Strtok(txt, type.save)
        goal_token == Strtok(txt, instance.save)
        rest       == StrtokRest(txt, goal_token.save)
        goal       == parse_int(goal_token.token[1], 0)
        fileGoal   == IF goal.value # BSTAT_NORMAL /\ goal.value # BSTAT_SHUTDOWN
                      THEN BSTAT_NORMAL ELSE goal.value
        notifier   == IF rest # NULLPTR /\ rest[1] = <<>> THEN NULLPTR ELSE rest
        wanted     == IF notifier # NULLPTR THEN 4 ELSE 3
        failed     == {k \in 1..wanted : ~BzAllocOk(n + k)}
        syntax     == [code |-> BZSYNTAX, value |-> value, nalloc |-> 0,
                       kept |-> 0]
    IN  IF value # NULLPTR THEN syntax
        ELSE IF type.token = NULLPTR \/ type.token[1] = <<>> THEN syntax
        ELSE IF instance.token = NULLPTR \/ instance.token[1] = <<>> THEN syntax
        ELSE IF goal_token.token = NULLPTR THEN syntax
        ELSE IF goal.code # SUCCESS THEN syntax
        ELSE IF failed # {}
        THEN [code |-> ENOMEM, value |-> value,
              nalloc |-> CHOOSE k \in failed : \A j \in failed : k <= j,
              kept |-> 0]
        ELSE [code |-> SUCCESS,
              value |-> Ptr([type |-> type.token[1],
                             instance |-> instance.token[1],
                             fileGoal |-> fileGoal,
                             notifier |-> notifier,
                             nparms |-> 0,
                             parm |-> NoParms]),
              nalloc |-> wanted, kept |-> wanted]

\* Every parameter is stored in the first slot.
parse_parm_FirstSlot(txt, value, n) ==
    IF value = NULLPTR
    THEN [code |-> BZSYNTAX, value |-> value, nalloc |-> 0, kept |-> 0]
    ELSE IF value[1].nparms >= 5
    THEN [code |-> BZSYNTAX, value |-> value, nalloc |-> 0, kept |-> 0]
    ELSE IF ~BzAllocOk(n + 1)
    THEN [code |-> ENOMEM, value |-> value, nalloc |-> 1, kept |-> 0]
    ELSE [code |-> SUCCESS,
          value |-> Ptr([value[1] EXCEPT !.parm[1] = Ptr(txt),
                                         !.nparms = @ + 1]),
          nalloc |-> 1, kept |-> 1]

\* The limit lets a sixth parameter in.
parse_parm_SixParms(txt, value, n) ==
    IF value = NULLPTR
    THEN [code |-> BZSYNTAX, value |-> value, nalloc |-> 0, kept |-> 0]
    ELSE IF value[1].nparms > 5
    THEN [code |-> BZSYNTAX, value |-> value, nalloc |-> 0, kept |-> 0]
    ELSE IF ~BzAllocOk(n + 1)
    THEN [code |-> ENOMEM, value |-> value, nalloc |-> 1, kept |-> 0]
    ELSE [code |-> SUCCESS,
          value |-> Ptr([value[1] EXCEPT
                            !.parm = [i \in 1..5 |->
                                         IF i = value[1].nparms + 1
                                         THEN Ptr(txt) ELSE @[i]],
                            !.nparms = @ + 1]),
          nalloc |-> 1, kept |-> 1]

\* parse_parm(text, &bnode_info, ...)
parse_parm(txt, value, n) ==
    IF value = NULLPTR
    THEN [code |-> BZSYNTAX, value |-> value, nalloc |-> 0, kept |-> 0]
    ELSE IF value[1].nparms >= 5
    THEN [code |-> BZSYNTAX, value |-> value, nalloc |-> 0, kept |-> 0]
    ELSE IF ~BzAllocOk(n + 1)
    THEN [code |-> ENOMEM, value |-> value, nalloc |-> 1, kept |-> 0]
    ELSE [code |-> SUCCESS,
          value |-> Ptr([value[1] EXCEPT
                            !.parm[value[1].nparms + 1] = Ptr(txt),
                            !.nparms = @ + 1]),
          nalloc |-> 1, kept |-> 1]

\* The code of bnode_Create is replaced by BZSYNTAX.
parse_end_HidesCreateCode(txt, value, bnodes, l) ==
    IF txt # <<>> \/ value = NULLPTR
    THEN [code |-> BZSYNTAX, value |-> value, bnodes |-> bnodes,
          calls |-> <<>>, freed |-> 0]
    ELSE
      LET bi == value[1]
          c  == bnode_Create(bi.type, bi.instance, bi.parm, bi.notifier,
                             bi.fileGoal, bnodes)
          create == [op |-> "bnode_Create", line |-> l, type |-> bi.type,
                     instance |-> bi.instance, args |-> bi.parm,
                     notifier |-> bi.notifier, fileGoal |-> bi.fileGoal,
                     code |-> c.code]
          status == IF bi.fileGoal = BSTAT_NORMAL
                    THEN BSTAT_NORMAL ELSE BSTAT_SHUTDOWN
          setstat == [op |-> "bnode_SetStat", line |-> l,
                      index |-> Len(c.bnodes), status |-> status]
      IN  IF c.code # SUCCESS
          THEN [code |-> BZSYNTAX, value |-> value, bnodes |-> c.bnodes,
                calls |-> <<create>>, freed |-> 0]
          ELSE [code |-> SUCCESS, value |-> NULLPTR,
                bnodes |-> bnode_SetStat(c.bnodes, Len(c.bnodes), status),
                calls |-> <<create, setstat>>, freed |-> FreeCount(value)]

\* The bnode_info is not released after the bnode was created.
parse_end_KeepsInfo(txt, value, bnodes, l) ==
    IF txt # <<>>
    THEN [code |-> BZSYNTAX, value |-> value, bnodes |-> bnodes,
          calls |-> <<>>, freed |-> 0]
    ELSE IF value = NULLPTR
    THEN [code |-> BZSYNTAX, value |-> value, bnodes |-> bnodes,
          calls |-> <<>>, freed |-> 0]
    ELSE
      LET bi == value[1]
          c  == bnode_Create(bi.type, bi.instance, bi.parm, bi.notifier,
                             bi.fileGoal, bnodes)
          create == [op |-> "bnode_Create", line |-> l, type |-> bi.type,
                     instance |-> bi.instance, args |-> bi.parm,
                     notifier |-> bi.notifier, fileGoal |-> bi.fileGoal,
                     code |-> c.code]
          status == IF bi.fileGoal = BSTAT_NORMAL
                    THEN BSTAT_NORMAL ELSE BSTAT_SHUTDOWN
          setstat == [op |-> "bnode_SetStat", line |-> l,
                      index |-> Len(c.bnodes), status |-> status]
      IN  IF c.code # SUCCESS
          THEN [code |-> c.code, value |-> value, bnodes |-> c.bnodes,
                calls |-> <<create>>, freed |-> 0]
          ELSE [code |-> SUCCESS, value |-> value,
                bnodes |-> bnode_SetStat(c.bnodes, Len(c.bnodes), status),
                calls |-> <<create, setstat>>, freed |-> 0]

\* parse_end(text, &bnode_info, ...) at line l: the return code, *value
\* afterwards, the bnodes afterwards, the calls made to the bnode library
\* and the allocations freed.
parse_end(txt, value, bnodes, l) ==
    IF txt # <<>>
    THEN [code |-> BZSYNTAX, value |-> value, bnodes |-> bnodes,
          calls |-> <<>>, freed |-> 0]
    ELSE IF value = NULLPTR
    THEN [code |-> BZSYNTAX, value |-> value, bnodes |-> bnodes,
          calls |-> <<>>, freed |-> 0]
    ELSE
      LET bi == value[1]
          c  == bnode_Create(bi.type, bi.instance, bi.parm, bi.notifier,
                             bi.fileGoal, bnodes)
          create == [op |-> "bnode_Create", line |-> l, type |-> bi.type,
                     instance |-> bi.instance, args |-> bi.parm,
                     notifier |-> bi.notifier, fileGoal |-> bi.fileGoal,
                     code |-> c.code]
          status == IF bi.fileGoal = BSTAT_NORMAL
                    THEN BSTAT_NORMAL ELSE BSTAT_SHUTDOWN
          setstat == [op |-> "bnode_SetStat", line |-> l,
                      index |-> Len(c.bnodes), status |-> status]
      IN  IF c.code # SUCCESS
          THEN [code |-> c.code, value |-> value, bnodes |-> c.bnodes,
                calls |-> <<create>>, freed |-> 0]
          ELSE [code |-> SUCCESS, value |-> NULLPTR,
                bnodes |-> bnode_SetStat(c.bnodes, Len(c.bnodes), status),
                calls |-> <<create, setstat>>, freed |-> FreeCount(value)]


(***************************************************************************)
(* ReadBozoFile.                                                           *)
(***************************************************************************)
TAG_restrictmode == <<"r", "e", "s", "t", "r", "i", "c", "t", "m", "o", "d", "e", SP>>
TAG_restarttime == <<"r", "e", "s", "t", "a", "r", "t", "t", "i", "m", "e", SP>>
TAG_checkbintime == <<"c", "h", "e", "c", "k", "b", "i", "n", "t", "i", "m", "e", SP>>
TAG_bnode == <<"b", "n", "o", "d", "e", SP>>
TAG_parm == <<"p", "a", "r", "m", SP>>
TAG_end == <<"e", "n", "d">>

\* struct parser parsers[]: the state the entry applies in, the state after
\* it, its tag and its parse function.
parsers ==
    << [state |-> 0, next |-> 0, tag |-> TAG_restrictmode, parse |-> "parse_bool",
        rock |-> "bozo_isrestricted"],
       [state |-> 0, next |-> 0, tag |-> TAG_restarttime, parse |-> "parse_ktime",
        rock |-> "bozo_nextRestartKT"],
       [state |-> 0, next |-> 0, tag |-> TAG_checkbintime, parse |-> "parse_ktime",
        rock |-> "bozo_nextDayKT"],
       [state |-> 0, next |-> 1, tag |-> TAG_bnode, parse |-> "parse_bnode",
        rock |-> "bnode_info"],
       [state |-> 1, next |-> 1, tag |-> TAG_parm, parse |-> "parse_parm",
        rock |-> "bnode_info"],
       [state |-> 1, next |-> 0, tag |-> TAG_end, parse |-> "parse_end",
        rock |-> "bnode_info"],
       [state |-> 0, next |-> 0, tag |-> <<>>, parse |-> "invalid_tag",
        rock |-> "NULL"],
       [state |-> 1, next |-> 1, tag |-> <<>>, parse |-> "invalid_tag",
        rock |-> "NULL"] >>

\* The last character of the line is removed whether it is a newline or
\* not.
Chomp_Always(buffer) ==
    SubSeq(buffer, 1, Len(buffer) - 1)

\* if (buffer[len - 1] == '\n') buffer[len - 1] = '\0';
Chomp(buffer) ==
    IF buffer[Len(buffer)] = LF THEN SubSeq(buffer, 1, Len(buffer) - 1)
    ELSE buffer

\* The state of the table entries is not compared.
MatchingParser_IgnoresState(tbl, st, buffer) ==
    tbl[CHOOSE i \in 1..Len(tbl) :
            /\ StartsWith(buffer, tbl[i].tag)
            /\ \A j \in 1..(i - 1) : ~StartsWith(buffer, tbl[j].tag)]

\* The first entry of the table for the state whose tag starts the line.
MatchingParser(tbl, st, buffer) ==
    tbl[CHOOSE i \in 1..Len(tbl) :
            /\ tbl[i].state = st /\ StartsWith(buffer, tbl[i].tag)
            /\ \A j \in 1..(i - 1) :
                  ~(tbl[j].state = st /\ StartsWith(buffer, tbl[j].tag))]

\* What the values written by a parser are when it has not run.
Unchanged ==
    [code |-> SUCCESS, isrestricted |-> bozo_isrestricted,
     restartKT |-> bozo_nextRestartKT, dayKT |-> bozo_nextDayKT,
     bi |-> bnode_info, bnodes |-> allBnodes, calls |-> <<>>,
     nalloc |-> 0, live |-> 0]

\* code = p->parse(buffer + p->len, p->rock, file, line): the results the
\* call can have.
Parse(p, txt) ==
    CASE p.parse = "parse_bool" ->
            {[Unchanged EXCEPT !.code = r.code, !.isrestricted = r.value] :
                 r \in {parse_bool(txt, bozo_isrestricted)}}
      [] p.parse = "parse_ktime" /\ p.rock = "bozo_nextRestartKT" ->
            {[Unchanged EXCEPT !.code = r.code, !.restartKT = r.value] :
                 r \in parse_ktime(txt, bozo_nextRestartKT)}
      [] p.parse = "parse_ktime" /\ p.rock = "bozo_nextDayKT" ->
            {[Unchanged EXCEPT !.code = r.code, !.dayKT = r.value] :
                 r \in parse_ktime(txt, bozo_nextDayKT)}
      [] p.parse = "parse_bnode" ->
            {[Unchanged EXCEPT !.code = r.code, !.bi = r.value,
                               !.nalloc = r.nalloc, !.live = r.kept] :
                 r \in {parse_bnode(txt, bnode_info, bz_nalloc)}}
      [] p.parse = "parse_parm" ->
            {[Unchanged EXCEPT !.code = r.code, !.bi = r.value,
                               !.nalloc = r.nalloc, !.live = r.kept] :
                 r \in {parse_parm(txt, bnode_info, bz_nalloc)}}
      [] p.parse = "parse_end" ->
            {[Unchanged EXCEPT !.code = r.code, !.bi = r.value,
                               !.bnodes = r.bnodes, !.calls = r.calls,
                               !.live = 0 - r.freed] :
                 r \in {parse_end(txt, bnode_info, allBnodes, bz_line)}}
      [] p.parse = "invalid_tag" ->
            {[Unchanged EXCEPT !.code = BZSYNTAX]}

\* done: fclose(fp); free_bnode_info(&bnode_info); free(buffer); return code;
Done(c, bi, live) ==
    /\ bz_code' = c
    /\ bnode_info' = NULLPTR
    /\ bz_live' = live - FreeCount(bi)
    /\ bz_pc' = "returned"

\* A missing file is reported as an error.
ReadBozoFile_open_NoColdStart ==
    /\ bz_pc = "read"
    /\ bz_state' = 0
    /\ bz_line' = 1
    /\ IF bz_fault.kind = "fopen"
       THEN Done(EACCES, NULLPTR, bz_live)
       ELSE IF bz_fs.target = NULLPTR
       THEN Done(ENOENT, NULLPTR, bz_live)
       ELSE /\ bz_pc' = "reading"
            /\ bnode_info' = NULLPTR
            /\ UNCHANGED <<bz_code, bz_live>>
    /\ UNCHANGED <<bz_fs, bz_fault, test_code, bozo_isrestricted, bozo_nextRestartKT,
                   bozo_nextDayKT, allBnodes, bz_nalloc, bnode_calls,
                   bz_before, bz_rounds>>

\* fp = fopen(file, "r"): a missing file is a cold start.
ReadBozoFile_open ==
    /\ bz_pc = "read"
    /\ bz_state' = 0
    /\ bz_line' = 1
    /\ IF bz_fault.kind = "fopen"
       THEN Done(EACCES, NULLPTR, bz_live)
       ELSE IF bz_fs.target = NULLPTR
       THEN Done(SUCCESS, NULLPTR, bz_live)
       ELSE /\ bz_pc' = "reading"
            /\ bnode_info' = NULLPTR
            /\ UNCHANGED <<bz_code, bz_live>>
    /\ UNCHANGED <<bz_fs, bz_fault, test_code, bozo_isrestricted, bozo_nextRestartKT,
                   bozo_nextDayKT, allBnodes, bz_nalloc, bnode_calls,
                   bz_before, bz_rounds>>

\* A line that fails undoes the lines before it: the bnodes are deleted
\* and the restricted flag is reset.
ReadBozoFile_line_RollsBack ==
    /\ bz_pc = "reading"
    /\ bz_line <= Len(bz_fs.target[1])
    /\ LET buffer == Chomp(bz_fs.target[1][bz_line])
           p == MatchingParser(parsers, bz_state, buffer)
       IN  \E r \in Parse(p, From(buffer, Len(p.tag))) :
               /\ bozo_isrestricted' =
                      IF r.code # SUCCESS THEN -1 ELSE r.isrestricted
               /\ bozo_nextRestartKT' = r.restartKT
               /\ bozo_nextDayKT' = r.dayKT
               /\ allBnodes' = IF r.code # SUCCESS THEN <<>> ELSE r.bnodes
               /\ bnode_calls' = bnode_calls \o r.calls
               /\ bz_nalloc' = bz_nalloc + r.nalloc
               /\ IF r.code # SUCCESS
                  THEN /\ Done(r.code, r.bi, bz_live + r.live)
                       /\ UNCHANGED <<bz_state, bz_line>>
                  ELSE /\ bnode_info' = r.bi
                       /\ bz_live' = bz_live + r.live
                       /\ bz_state' = p.next
                       /\ bz_line' = bz_line + 1
                       /\ UNCHANGED <<bz_code, bz_pc>>
    /\ UNCHANGED <<bz_fs, bz_fault, test_code, bz_before, bz_rounds>>

\* One iteration of the while loop: a line is read and parsed.
ReadBozoFile_line ==
    /\ bz_pc = "reading"
    /\ bz_line <= Len(bz_fs.target[1])
    /\ LET buffer == Chomp(bz_fs.target[1][bz_line])
           p == MatchingParser(parsers, bz_state, buffer)
       IN  \E r \in Parse(p, From(buffer, Len(p.tag))) :
               /\ bozo_isrestricted' = r.isrestricted
               /\ bozo_nextRestartKT' = r.restartKT
               /\ bozo_nextDayKT' = r.dayKT
               /\ allBnodes' = r.bnodes
               /\ bnode_calls' = bnode_calls \o r.calls
               /\ bz_nalloc' = bz_nalloc + r.nalloc
               /\ IF r.code # SUCCESS
                  THEN /\ Done(r.code, r.bi, bz_live + r.live)
                       /\ UNCHANGED <<bz_state, bz_line>>
                  ELSE /\ bnode_info' = r.bi
                       /\ bz_live' = bz_live + r.live
                       /\ bz_state' = p.next
                       /\ bz_line' = bz_line + 1
                       /\ UNCHANGED <<bz_code, bz_pc>>
    /\ UNCHANGED <<bz_fs, bz_fault, test_code, bz_before, bz_rounds>>

\* getline returned -1: the end of the file.
ReadBozoFile_eof ==
    /\ bz_pc = "reading"
    /\ bz_line > Len(bz_fs.target[1])
    /\ Done(IF bnode_info # NULLPTR THEN BZSYNTAX ELSE SUCCESS, bnode_info, bz_live)
    /\ UNCHANGED <<bz_fs, bz_fault, test_code, bozo_isrestricted, bozo_nextRestartKT,
                   bozo_nextDayKT, allBnodes, bz_state, bz_line, bz_nalloc,
                   bnode_calls, bz_before, bz_rounds>>


(***************************************************************************)
(* WriteBozoFile.                                                          *)
(***************************************************************************)
DigitChar(d) ==
    CASE d = 0 -> "0" [] d = 1 -> "1" [] d = 2 -> "2" [] d = 3 -> "3"
      [] d = 4 -> "4" [] d = 5 -> "5" [] d = 6 -> "6" [] d = 7 -> "7"
      [] d = 8 -> "8" [] d = 9 -> "9"

\* The decimal digits of a natural number.
RECURSIVE DecText(_)
DecText(n) ==
    IF n < 10 THEN <<DigitChar(n)>>
    ELSE Append(DecText(n \div 10), DigitChar(n % 10))

\* printf("%d", v)
IntText(v) == IF v < 0 THEN <<"-">> \o DecText(0 - v) ELSE DecText(v)

\* The hour is printed before the day.
KtimeLine_HourFirst(tag, t) ==
    tag \o IntText(t.mask) \o <<SP>> \o IntText(t.hour) \o <<SP>>
        \o IntText(t.day) \o <<SP>> \o IntText(t.min) \o <<SP>>
        \o IntText(t.sec) \o <<LF>>

\* "<tag>%d %d %d %d %d\n"
KtimeLine(tag, t) ==
    tag \o IntText(t.mask) \o <<SP>> \o IntText(t.day) \o <<SP>>
        \o IntText(t.hour) \o <<SP>> \o IntText(t.min) \o <<SP>>
        \o IntText(t.sec) \o <<LF>>

\* The "parm %s\n" lines bzwrite prints for a bnode from index i on: one
\* for each parameter bnode_GetParm gives, until it returns BZDOM.
RECURSIVE ParmLines(_, _)
ParmLines(bnode, i) ==
    LET g == bnode_GetParm(bnode, i)
    IN  IF g.code # SUCCESS THEN <<>>
        ELSE <<TAG_parm \o g.parm[1] \o <<LF>>>> \o ParmLines(bnode, i + 1)

\* The bnode line is written without the notifier.
bzwrite_DropsNotifier(bnode) ==
    << TAG_bnode \o bnode.type \o <<SP>> \o bnode.name \o <<SP>>
           \o IntText(bnode.fileGoal) \o <<LF>> >>
    \o ParmLines(bnode, 0)
    \o << TAG_end \o <<LF>> >>

\* bzwrite(abnode, arock): the lines printed for one bnode.
bzwrite(bnode) ==
    << TAG_bnode \o bnode.type \o <<SP>> \o bnode.name \o <<SP>>
           \o IntText(bnode.fileGoal)
           \o (IF bnode.notifier # NULLPTR
               THEN <<SP>> \o bnode.notifier[1] ELSE <<>>)
           \o <<LF>> >>
    \o ParmLines(bnode, 0)
    \o << TAG_end \o <<LF>> >>

\* bnode_ApplyInstance(bzwrite, &btemp): bzwrite on every bnode from the
\* i-th on, in the order of the list.
RECURSIVE ApplyInstance_bzwrite(_, _)
ApplyInstance_bzwrite(bnodes, i) ==
    IF i > Len(bnodes) THEN <<>>
    ELSE bzwrite(bnodes[i]) \o ApplyInstance_bzwrite(bnodes, i + 1)

\* Everything a WriteBozoFile call without failure prints to the file.
Printed ==
    << TAG_restrictmode \o IntText(bozo_isrestricted) \o <<LF>>,
       KtimeLine(TAG_restarttime, bozo_nextRestartKT),
       KtimeLine(TAG_checkbintime, bozo_nextDayKT) >>
    \o ApplyInstance_bzwrite(allBnodes, 1)

\* The failures a WriteBozoFile call can meet, with the value it returns:
\* fopen of the temporary file, an error of bnode_GetParm other than BZDOM
\* (returned by bzwrite and by bnode_ApplyInstance), a write error seen by
\* ferror, fclose, and the rename.
EIO == "EIO"
WriteFailures ==
    [wfopen |-> "-1", getparm |-> EIO, ferror |-> "1", fclose |-> "-1",
     rename |-> "-1"]

\* The injected failure happens in this call: bnode_GetParm is only called
\* when there is a bnode.
WriteFails ==
    /\ bz_fault.kind \in DOMAIN WriteFailures
    /\ bz_fault.kind = "getparm" => allBnodes # <<>>

\* The file is written in place, with no temporary file: a failure leaves
\* the lines written before it in the target.
WriteBozoFile_InPlace ==
    /\ bz_pc \in {"write", "returned"}
    /\ bz_before = NULLPTR
    /\ bz_before' = Ptr([isrestricted |-> bozo_isrestricted,
                         restartKT |-> bozo_nextRestartKT,
                         dayKT |-> bozo_nextDayKT,
                         bnodes |-> allBnodes,
                         target |-> bz_fs.target])
    /\ IF bz_fault.kind = "wfopen"
       THEN /\ bz_code' = WriteFailures[bz_fault.kind]
            /\ bz_fs' = bz_fs
       ELSE IF WriteFails
       THEN /\ bz_code' = WriteFailures[bz_fault.kind]
            /\ bz_fs' = [bz_fs EXCEPT !.target = Ptr(SubSeq(Printed, 1, 3))]
       ELSE /\ bz_code' = SUCCESS
            /\ bz_fs' = [bz_fs EXCEPT !.target = Ptr(Printed)]
    /\ bz_pc' = "written"
    /\ UNCHANGED <<bz_fault, test_code, bozo_isrestricted, bozo_nextRestartKT,
                   bozo_nextDayKT, allBnodes, bz_state, bz_line, bnode_info,
                   bz_nalloc, bz_live, bnode_calls, bz_rounds>>

\* WriteBozoFile(aname): the file is written to <aname>.NBZ and renamed to
\* aname; on a failure after the fopen the temporary file is unlinked.
WriteBozoFile ==
    /\ bz_pc \in {"write", "returned"}
    /\ bz_before = NULLPTR
    /\ bz_before' = Ptr([isrestricted |-> bozo_isrestricted,
                         restartKT |-> bozo_nextRestartKT,
                         dayKT |-> bozo_nextDayKT,
                         bnodes |-> allBnodes,
                         target |-> bz_fs.target])
    /\ IF bz_fault.kind = "wfopen"
       THEN /\ bz_code' = WriteFailures[bz_fault.kind]
            /\ bz_fs' = bz_fs
       ELSE IF WriteFails
       THEN /\ bz_code' = WriteFailures[bz_fault.kind]
            /\ bz_fs' = [bz_fs EXCEPT !.nbz = NULLPTR]
       ELSE /\ bz_code' = SUCCESS
            /\ bz_fs' = [target |-> Ptr(Printed), nbz |-> NULLPTR]
    /\ bz_pc' = "written"
    /\ UNCHANGED <<bz_fault, test_code, bozo_isrestricted, bozo_nextRestartKT,
                   bozo_nextDayKT, allBnodes, bz_state, bz_line, bnode_info,
                   bz_nalloc, bz_live, bnode_calls, bz_rounds>>

\* The server is started again: it has no bnodes and its globals have the
\* values they have before the file is read.
Restart ==
    /\ bz_pc = "written"
    /\ bz_rounds = 0
    /\ bz_rounds' = 1
    /\ bz_pc' = "read"
    /\ bozo_isrestricted' = -1
    /\ bozo_nextRestartKT' = KtimeAll(-1)
    /\ bozo_nextDayKT' = KtimeAll(-1)
    /\ allBnodes' = <<>>
    /\ bnode_calls' = <<>>
    /\ UNCHANGED <<bz_fs, bz_fault, test_code, bz_state, bz_line, bnode_info, bz_code,
                   bz_nalloc, bz_live, bz_before>>


\* The configurations of test_read_bosconfig with the code each expects
\* (tests/bozo/bosconfig-t.c); config is NULLPTR where the test removes the
\* file.
read_test_cases ==
    <<
    \* line 278: no file
    [test_code |-> SUCCESS,
     config |-> NULLPTR],
    \* line 284: sample database config
    [test_code |-> SUCCESS,
     config |-> Ptr(<< <<"r", "e", "s", "t", "r", "i", "c", "t", "m", "o", "d", "e", SP, "0", LF>>,
                     <<"r", "e", "s", "t", "a", "r", "t", "t", "i", "m", "e", SP, "1", "6", SP, "0", SP, "0", SP, "0", SP, "0", LF>>,
                     <<"c", "h", "e", "c", "k", "b", "i", "n", "t", "i", "m", "e", SP, "3", SP, "0", SP, "5", SP, "0", SP, "0", LF>>,
                     <<"b", "n", "o", "d", "e", SP, "s", "i", "m", "p", "l", "e", SP, "p", "t", "s", "e", "r", "v", "e", "r", SP, "1", LF>>,
                     <<"p", "a", "r", "m", SP, "/", "u", "s", "r", "/", "a", "f", "s", "/", "b", "i", "n", "/", "p", "t", "s", "e", "r", "v", "e", "r", LF>>,
                     <<"e", "n", "d", LF>>,
                     <<"b", "n", "o", "d", "e", SP, "s", "i", "m", "p", "l", "e", SP, "v", "l", "s", "e", "r", "v", "e", "r", SP, "1", LF>>,
                     <<"p", "a", "r", "m", SP, "/", "u", "s", "r", "/", "a", "f", "s", "/", "b", "i", "n", "/", "v", "l", "s", "e", "r", "v", "e", "r", LF>>,
                     <<"e", "n", "d", LF>> >>)],
    \* line 303: sample file server config
    [test_code |-> SUCCESS,
     config |-> Ptr(<< <<"r", "e", "s", "t", "r", "i", "c", "t", "m", "o", "d", "e", SP, "0", LF>>,
                     <<"r", "e", "s", "t", "a", "r", "t", "t", "i", "m", "e", SP, "1", "6", SP, "0", SP, "0", SP, "0", SP, "0", LF>>,
                     <<"c", "h", "e", "c", "k", "b", "i", "n", "t", "i", "m", "e", SP, "3", SP, "0", SP, "5", SP, "0", SP, "0", LF>>,
                     <<"b", "n", "o", "d", "e", SP, "d", "a", "f", "s", SP, "d", "a", "f", "s", SP, "1", LF>>,
                     <<"p", "a", "r", "m", SP, "/", "u", "s", "r", "/", "a", "f", "s", "/", "b", "i", "n", "/", "d", "a", "f", "i", "l", "e", "s", "e", "r", "v", "e", "r", SP, "-", "d", SP, "1", SP, "-", "L", LF>>,
                     <<"p", "a", "r", "m", SP, "/", "u", "s", "r", "/", "a", "f", "s", "/", "b", "i", "n", "/", "d", "a", "v", "o", "l", "s", "e", "r", "v", "e", "r", SP, "-", "d", SP, "1", LF>>,
                     <<"p", "a", "r", "m", SP, "/", "u", "s", "r", "/", "a", "f", "s", "/", "b", "i", "n", "/", "s", "a", "l", "v", "a", "g", "e", "s", "e", "r", "v", "e", "r", LF>>,
                     <<"p", "a", "r", "m", SP, "/", "u", "s", "r", "/", "a", "f", "s", "/", "b", "i", "n", "/", "d", "a", "s", "a", "l", "v", "a", "g", "e", "r", LF>>,
                     <<"e", "n", "d", LF>> >>)],
    \* line 326: empty
    [test_code |-> SUCCESS,
     config |-> Ptr(<<>>)],
    \* line 331: invalid tag
    [test_code |-> BZSYNTAX,
     config |-> Ptr(<< <<"b", "o", "g", "u", "s", LF>> >>)],
    \* line 336: invalid bool
    [test_code |-> BZSYNTAX,
     config |-> Ptr(<< <<"r", "e", "s", "t", "r", "i", "c", "t", "m", "o", "d", "e", SP, "2", LF>> >>)],
    \* line 341: invalid integer
    [test_code |-> BZSYNTAX,
     config |-> Ptr(<< <<"r", "e", "s", "t", "r", "i", "c", "t", "m", "o", "d", "e", SP, "f", "o", "o", LF>> >>)],
    \* line 346: invalid integer
    [test_code |-> BZSYNTAX,
     config |-> Ptr(<< <<"r", "e", "s", "t", "r", "i", "c", "t", "m", "o", "d", "e", SP, "1", "f", "o", "o", LF>> >>)],
    \* line 351: invalid ktime: missing times
    [test_code |-> BZSYNTAX,
     config |-> Ptr(<< <<"r", "e", "s", "t", "a", "r", "t", "t", "i", "m", "e", SP, "1", "6", LF>> >>)],
    \* line 356: invalid ktime: day range
    [test_code |-> BZSYNTAX,
     config |-> Ptr(<< <<"r", "e", "s", "t", "a", "r", "t", "t", "i", "m", "e", SP, "1", "6", SP, "7", SP, "0", SP, "0", SP, "0", LF>> >>)],
    \* line 361: invalid ktime: hour range
    [test_code |-> BZSYNTAX,
     config |-> Ptr(<< <<"r", "e", "s", "t", "a", "r", "t", "t", "i", "m", "e", SP, "1", "6", SP, "1", SP, "2", "4", SP, "0", SP, "0", LF>> >>)],
    \* line 366: invalid ktime: min range
    [test_code |-> BZSYNTAX,
     config |-> Ptr(<< <<"r", "e", "s", "t", "a", "r", "t", "t", "i", "m", "e", SP, "1", "6", SP, "1", SP, "0", SP, "6", "0", SP, "0", LF>> >>)],
    \* line 371: invalid ktime: sec range
    [test_code |-> BZSYNTAX,
     config |-> Ptr(<< <<"r", "e", "s", "t", "a", "r", "t", "t", "i", "m", "e", SP, "1", "6", SP, "1", SP, "0", SP, "0", SP, "6", "0", LF>> >>)],
    \* line 376: bnode type simple
    [test_code |-> SUCCESS,
     config |-> Ptr(<< <<"b", "n", "o", "d", "e", SP, "s", "i", "m", "p", "l", "e", SP, "f", "o", "o", SP, "1", LF>>,
                     <<"p", "a", "r", "m", SP, "e", "x", "a", "m", "p", "l", "e", LF>>,
                     <<"e", "n", "d", LF>> >>)],
    \* line 383: bnode type simple missing parm
    [test_code |-> BZNOCREATE,
     config |-> Ptr(<< <<"b", "n", "o", "d", "e", SP, "s", "i", "m", "p", "l", "e", SP, "f", "o", "o", SP, "1", LF>>,
                     <<"e", "n", "d", LF>> >>)],
    \* line 389: bnode type simple too many parms
    [test_code |-> BZNOCREATE,
     config |-> Ptr(<< <<"b", "n", "o", "d", "e", SP, "s", "i", "m", "p", "l", "e", SP, "f", "o", "o", SP, "1", LF>>,
                     <<"p", "a", "r", "m", SP, "o", "n", "e", LF>>,
                     <<"p", "a", "r", "m", SP, "t", "w", "o", LF>>,
                     <<"e", "n", "d", LF>> >>)],
    \* line 395: bnode type cron
    [test_code |-> SUCCESS,
     config |-> Ptr(<< <<"b", "n", "o", "d", "e", SP, "c", "r", "o", "n", SP, "f", "o", "o", SP, "1", LF>>,
                     <<"p", "a", "r", "m", SP, "o", "n", "e", LF>>,
                     <<"p", "a", "r", "m", SP, "n", "o", "w", LF>>,
                     <<"e", "n", "d", LF>> >>)],
    \* line 401: bnode type cron missing parms
    [test_code |-> BZNOCREATE,
     config |-> Ptr(<< <<"b", "n", "o", "d", "e", SP, "c", "r", "o", "n", SP, "f", "o", "o", SP, "1", LF>>,
                     <<"e", "n", "d", LF>> >>)],
    \* line 407: bnode type cron missing time
    [test_code |-> BZNOCREATE,
     config |-> Ptr(<< <<"b", "n", "o", "d", "e", SP, "c", "r", "o", "n", SP, "f", "o", "o", SP, "1", LF>>,
                     <<"p", "a", "r", "m", SP, "o", "n", "e", LF>>,
                     <<"e", "n", "d", LF>> >>)],
    \* line 413: bnode type fs
    [test_code |-> SUCCESS,
     config |-> Ptr(<< <<"b", "n", "o", "d", "e", SP, "f", "s", SP, "f", "o", "o", SP, "1", LF>>,
                     <<"p", "a", "r", "m", SP, "o", "n", "e", LF>>,
                     <<"p", "a", "r", "m", SP, "t", "w", "o", LF>>,
                     <<"p", "a", "r", "m", SP, "t", "h", "r", "e", "e", LF>>,
                     <<"e", "n", "d", LF>> >>)],
    \* line 419: bnode type fs missing parms
    [test_code |-> BZNOCREATE,
     config |-> Ptr(<< <<"b", "n", "o", "d", "e", SP, "f", "s", SP, "f", "o", "o", SP, "1", LF>>,
                     <<"e", "n", "d", LF>> >>)],
    \* line 424: bnode type dafs
    [test_code |-> SUCCESS,
     config |-> Ptr(<< <<"b", "n", "o", "d", "e", SP, "d", "a", "f", "s", SP, "f", "o", "o", SP, "1", LF>>,
                     <<"p", "a", "r", "m", SP, "o", "n", "e", LF>>,
                     <<"p", "a", "r", "m", SP, "t", "w", "o", LF>>,
                     <<"p", "a", "r", "m", SP, "t", "h", "r", "e", "e", LF>>,
                     <<"p", "a", "r", "m", SP, "f", "o", "u", "r", LF>>,
                     <<"e", "n", "d", LF>> >>)],
    \* line 430: bnode type dafs missing parms
    [test_code |-> BZNOCREATE,
     config |-> Ptr(<< <<"b", "n", "o", "d", "e", SP, "d", "a", "f", "s", SP, "f", "o", "o", SP, "1", LF>>,
                     <<"e", "n", "d", LF>> >>)],
    \* line 436: invalid bnode type
    [test_code |-> BZBADTYPE,
     config |-> Ptr(<< <<"b", "n", "o", "d", "e", SP, "b", "o", "g", "u", "s", SP, "f", "o", "o", SP, "1", LF>>,
                     <<"e", "n", "d", LF>> >>)],
    \* line 441: missing bnode type
    [test_code |-> BZSYNTAX,
     config |-> Ptr(<< <<"b", "n", "o", "d", "e", SP, LF>>,
                     <<"e", "n", "d", LF>> >>)],
    \* line 446: missing bnode instance
    [test_code |-> BZSYNTAX,
     config |-> Ptr(<< <<"b", "n", "o", "d", "e", SP, "t", "e", "s", "t", LF>>,
                     <<LF>>,
                     <<"e", "n", "d">> >>)],
    \* line 451: bnode goal 0
    [test_code |-> SUCCESS,
     config |-> Ptr(<< <<"b", "n", "o", "d", "e", SP, "t", "e", "s", "t", SP, "f", "o", "o", SP, "0", LF>>,
                     <<"e", "n", "d", LF>> >>)],
    \* line 456: bnode goal 1
    [test_code |-> SUCCESS,
     config |-> Ptr(<< <<"b", "n", "o", "d", "e", SP, "t", "e", "s", "t", SP, "f", "o", "o", SP, "1", LF>>,
                     <<"e", "n", "d", LF>> >>)],
    \* line 461: non-zero bnode goal is accepted as 1
    [test_code |-> SUCCESS,
     config |-> Ptr(<< <<"b", "n", "o", "d", "e", SP, "t", "e", "s", "t", SP, "f", "o", "o", SP, "2", LF>>,
                     <<"e", "n", "d", LF>> >>)],
    \* line 466: missing bnode goal
    [test_code |-> BZSYNTAX,
     config |-> Ptr(<< <<"b", "n", "o", "d", "e", SP, "t", "e", "s", "t", SP, "f", "o", "o", LF>>,
                     <<"e", "n", "d", LF>> >>)],
    \* line 471: invalid bnode goal
    [test_code |-> BZSYNTAX,
     config |-> Ptr(<< <<"b", "n", "o", "d", "e", SP, "t", "e", "s", "t", SP, "f", "o", "o", SP, "b", "o", "g", "u", "s", LF>>,
                     <<"e", "n", "d", LF>> >>)],
    \* line 476: missing end tag
    [test_code |-> BZSYNTAX,
     config |-> Ptr(<< <<"b", "n", "o", "d", "e", SP, "t", "e", "s", "t", SP, "f", "o", "o", SP, "1", LF>> >>)],
    \* line 480: unexpected end tag
    [test_code |-> BZSYNTAX,
     config |-> Ptr(<< <<"e", "n", "d", LF>> >>)],
    \* line 484: unexpected parm tag
    [test_code |-> BZSYNTAX,
     config |-> Ptr(<< <<"p", "a", "r", "m", SP, "f", "o", "o", LF>>,
                     <<"e", "n", "d", LF>> >>)],
    \* line 488: invalid tag after bnode
    [test_code |-> BZSYNTAX,
     config |-> Ptr(<< <<"b", "n", "o", "d", "e", SP, "t", "e", "s", "t", SP, "f", "o", "o", SP, "1", LF>>,
                     <<"b", "o", "g", "u", "s", LF>>,
                     <<"e", "n", "d", LF>> >>)],
    \* line 496: characters after end tag
    [test_code |-> BZSYNTAX,
     config |-> Ptr(<< <<"b", "n", "o", "d", "e", SP, "t", "e", "s", "t", SP, "f", "o", "o", SP, "1", LF>>,
                     <<"e", "n", "d", SP, LF>> >>)],
    \* line 500: max parm tags
    [test_code |-> SUCCESS,
     config |-> Ptr(<< <<"b", "n", "o", "d", "e", SP, "t", "e", "s", "t", SP, "f", "o", "o", SP, "1", LF>>,
                     <<"p", "a", "r", "m", SP, "o", "n", "e", LF>>,
                     <<"p", "a", "r", "m", SP, "t", "w", "o", LF>>,
                     <<"p", "a", "r", "m", SP, "t", "h", "r", "e", "e", LF>>,
                     <<"p", "a", "r", "m", SP, "f", "o", "u", "r", LF>>,
                     <<"p", "a", "r", "m", SP, "f", "i", "v", "e", LF>>,
                     <<"e", "n", "d", LF>> >>)],
    \* line 507: too many parm tags
    [test_code |-> BZSYNTAX,
     config |-> Ptr(<< <<"b", "n", "o", "d", "e", SP, "t", "e", "s", "t", SP, "f", "o", "o", SP, "1", LF>>,
                     <<"p", "a", "r", "m", SP, "o", "n", "e", LF>>,
                     <<"p", "a", "r", "m", SP, "t", "w", "o", LF>>,
                     <<"p", "a", "r", "m", SP, "t", "h", "r", "e", "e", LF>>,
                     <<"p", "a", "r", "m", SP, "f", "o", "u", "r", LF>>,
                     <<"p", "a", "r", "m", SP, "f", "i", "v", "e", LF>>,
                     <<"p", "a", "r", "m", SP, "s", "i", "x", LF>>,
                     <<"e", "n", "d", LF>> >>)],
    \* line 513: empty parm
    [test_code |-> SUCCESS,
     config |-> Ptr(<< <<"b", "n", "o", "d", "e", SP, "t", "e", "s", "t", SP, "f", "o", "o", SP, "1", LF>>,
                     <<"p", "a", "r", "m", SP, LF>>,
                     <<"e", "n", "d", LF>> >>)],
    \* line 519: out of order tags
    [test_code |-> BZSYNTAX,
     config |-> Ptr(<< <<"b", "n", "o", "d", "e", SP, "d", "a", "f", "s", SP, "d", "a", "f", "s", SP, "1", LF>>,
                     <<"r", "e", "s", "t", "r", "i", "c", "t", "m", "o", "d", "e", SP, "0", LF>>,
                     <<"r", "e", "s", "t", "a", "r", "t", "t", "i", "m", "e", SP, "1", "6", SP, "0", SP, "0", SP, "0", SP, "0", LF>>,
                     <<"c", "h", "e", "c", "k", "b", "i", "n", "t", "i", "m", "e", SP, "3", SP, "0", SP, "5", SP, "0", SP, "0", LF>>,
                     <<"p", "a", "r", "m", SP, "/", "u", "s", "r", "/", "a", "f", "s", "/", "b", "i", "n", "/", "d", "a", "f", "i", "l", "e", "s", "e", "r", "v", "e", "r", SP, "-", "d", SP, "1", SP, "-", "L", LF>>,
                     <<"p", "a", "r", "m", SP, "/", "u", "s", "r", "/", "a", "f", "s", "/", "b", "i", "n", "/", "d", "a", "v", "o", "l", "s", "e", "r", "v", "e", "r", SP, "-", "d", SP, "1", LF>>,
                     <<"p", "a", "r", "m", SP, "/", "u", "s", "r", "/", "a", "f", "s", "/", "b", "i", "n", "/", "s", "a", "l", "v", "a", "g", "e", "s", "e", "r", "v", "e", "r", LF>>,
                     <<"p", "a", "r", "m", SP, "/", "u", "s", "r", "/", "a", "f", "s", "/", "b", "i", "n", "/", "d", "a", "s", "a", "l", "v", "a", "g", "e", "r", LF>>,
                     <<"e", "n", "d", LF>> >>)],
    \* line 534: bnode notifier
    [test_code |-> SUCCESS,
     config |-> Ptr(<< <<"b", "n", "o", "d", "e", SP, "t", "e", "s", "t", SP, "f", "o", "o", SP, "1", SP, "/", "t", "m", "p", "/", "n", LF>>,
                     <<"e", "n", "d", LF>> >>)]
    >>

\* Lines outside a bnode block (without their newline): valid and invalid
\* settings, unknown tags, and tags that belong inside a block.
GlobalLines ==
    { <<"r", "e", "s", "t", "r", "i", "c", "t", "m", "o", "d", "e", SP, "0">>,
      <<"r", "e", "s", "t", "r", "i", "c", "t", "m", "o", "d", "e", SP, "1">>,
      <<"r", "e", "s", "t", "r", "i", "c", "t", "m", "o", "d", "e", SP, "2">>,
      <<"r", "e", "s", "t", "r", "i", "c", "t", "m", "o", "d", "e", SP, "-", "1">>,
      <<"r", "e", "s", "t", "r", "i", "c", "t", "m", "o", "d", "e", SP, "1", "x">>,
      <<"r", "e", "s", "t", "r", "i", "c", "t", "m", "o", "d", "e", SP, "x">>,
      <<"r", "e", "s", "t", "r", "i", "c", "t", "m", "o", "d", "e", SP>>,
      <<"r", "e", "s", "t", "r", "i", "c", "t", "m", "o", "d", "e">>,
      <<"r", "e", "s", "t", "r", "i", "c", "t", "m", "o", "d", "e", SP, SP, "1">>,
      <<"r", "e", "s", "t", "a", "r", "t", "t", "i", "m", "e", SP, "1", "6", SP, "0", SP, "0", SP, "0", SP, "0">>,
      <<"r", "e", "s", "t", "a", "r", "t", "t", "i", "m", "e", SP, "1", SP, "6", SP, "2", "3", SP, "5", "9", SP, "5", "9">>,
      <<"r", "e", "s", "t", "a", "r", "t", "t", "i", "m", "e", SP, "1", "6", SP, "7", SP, "0", SP, "0", SP, "0">>,
      <<"r", "e", "s", "t", "a", "r", "t", "t", "i", "m", "e", SP, "1", "6", SP, "1", SP, "2", "4", SP, "0", SP, "0">>,
      <<"r", "e", "s", "t", "a", "r", "t", "t", "i", "m", "e", SP, "1", "6", SP, "1", SP, "0", SP, "6", "0", SP, "0">>,
      <<"r", "e", "s", "t", "a", "r", "t", "t", "i", "m", "e", SP, "1", "6", SP, "1", SP, "0", SP, "0", SP, "6", "0">>,
      <<"r", "e", "s", "t", "a", "r", "t", "t", "i", "m", "e", SP, "1", "6", SP, "-", "1", SP, "0", SP, "0", SP, "0">>,
      <<"r", "e", "s", "t", "a", "r", "t", "t", "i", "m", "e", SP, "1", "6">>,
      <<"r", "e", "s", "t", "a", "r", "t", "t", "i", "m", "e", SP, "1", "6", SP, "0", SP, "0", SP, "0", SP, "0", SP, "0">>,
      <<"r", "e", "s", "t", "a", "r", "t", "t", "i", "m", "e", SP, "1", "6", SP, "6", "5", "5", "3", "6", SP, "0", SP, "0", SP, "0">>,
      <<"c", "h", "e", "c", "k", "b", "i", "n", "t", "i", "m", "e", SP, "3", SP, "0", SP, "5", SP, "0", SP, "0">>,
      <<"c", "h", "e", "c", "k", "b", "i", "n", "t", "i", "m", "e", SP, "3", SP, "0", SP, "5", SP, "0">>,
      <<"c", "h", "e", "c", "k", "b", "i", "n", "t", "i", "m", "e", SP, "3", SP, "0", SP, "5", SP, "0", SP, "0", "x">>,
      <<"b", "o", "g", "u", "s">>,
      <<>>,
      <<"e", "n", "d">>,
      <<"p", "a", "r", "m", SP, "a">> }

\* The bnode lines of the blocks generated with every sequence of
\* parameters.
DeepBnodeLines ==
    { <<"b", "n", "o", "d", "e", SP, "t", "e", "s", "t", SP, "f", "o", "o", SP, "1">>,
      <<"b", "n", "o", "d", "e", SP, "t", "e", "s", "t", SP, "f", "o", "o", SP, "0", SP, "/", "t", "m", "p", "/", "n">> }

\* The bnode lines of the blocks generated with few parameters: the goals,
\* the notifiers, the types, the missing fields.
BnodeLines ==
    { <<"b", "n", "o", "d", "e", SP, "t", "e", "s", "t", SP, "f", "o", "o", SP, "0">>,
      <<"b", "n", "o", "d", "e", SP, "t", "e", "s", "t", SP, "f", "o", "o", SP, "1">>,
      <<"b", "n", "o", "d", "e", SP, "t", "e", "s", "t", SP, "f", "o", "o", SP, "2">>,
      <<"b", "n", "o", "d", "e", SP, "t", "e", "s", "t", SP, "f", "o", "o", SP, "-", "1">>,
      <<"b", "n", "o", "d", "e", SP, "t", "e", "s", "t", SP, "f", "o", "o", SP, "1", SP, "/", "t", "m", "p", "/", "n">>,
      <<"b", "n", "o", "d", "e", SP, "t", "e", "s", "t", SP, "f", "o", "o", SP, "1", SP>>,
      <<"b", "n", "o", "d", "e", SP, "t", "e", "s", "t", SP, "f", "o", "o", SP, "1", SP, SP, "n", SP, "x">>,
      <<"b", "n", "o", "d", "e", SP, SP, "t", "e", "s", "t", SP, SP, "f", "o", "o", SP, SP, "1">>,
      <<"b", "n", "o", "d", "e", SP, "s", "i", "m", "p", "l", "e", SP, "f", "o", "o", SP, "1">>,
      <<"b", "n", "o", "d", "e", SP, "c", "r", "o", "n", SP, "f", "o", "o", SP, "0">>,
      <<"b", "n", "o", "d", "e", SP, "b", "o", "g", "u", "s", SP, "f", "o", "o", SP, "1">>,
      <<"b", "n", "o", "d", "e", SP>>,
      <<"b", "n", "o", "d", "e", SP, "t", "e", "s", "t">>,
      <<"b", "n", "o", "d", "e", SP, "t", "e", "s", "t", SP, "f", "o", "o">>,
      <<"b", "n", "o", "d", "e", SP, "t", "e", "s", "t", SP, "f", "o", "o", SP, "x">>,
      <<"b", "n", "o", "d", "e", SP, "t", "e", "s", "t", SP, "f", "o", "o", SP, "1", "x">>,
      <<"b", "n", "o", "d", "e", SP, "t", "e", "s", "t", SP, "f", "o", "o", SP, "1", TAB, "n">>,
      <<"b", "n", "o", "d", "e">> }

\* The texts of the generated parm lines.
ParmTexts ==
    { <<>>,
      <<"a">> }

\* What follows the parm lines of a generated block: nothing (the file
\* ends inside the block), the end line alone or followed by more lines,
\* or a line that is not valid inside a block (an empty line is one).
Closings ==
    { <<>>,
      <<<<"e", "n", "d">>>>,
      <<<<"e", "n", "d", SP>>>>,
      <<<<"b", "o", "g", "u", "s">>>>,
      <<<<"p", "a", "r", "m">>>>,
      <<<<>>>>,
      <<<<>>, <<"e", "n", "d">>>>,
      <<<<"r", "e", "s", "t", "r", "i", "c", "t", "m", "o", "d", "e", SP, "1">>>>,
      <<<<"b", "n", "o", "d", "e", SP, "t", "e", "s", "t", SP, "b", "a", "r", SP, "1">>, <<"e", "n", "d">>>>,
      <<<<"e", "n", "d">>, <<"e", "n", "d">>>>,
      <<<<"e", "n", "d">>, <<"r", "e", "s", "t", "r", "i", "c", "t", "m", "o", "d", "e", SP, "1">>>>,
      <<<<"e", "n", "d">>, <<"b", "n", "o", "d", "e", SP, "t", "e", "s", "t", SP, "b", "a", "r", SP, "0">>, <<"p", "a", "r", "m", SP, "b">>, <<"e", "n", "d">>>>,
      <<<<"e", "n", "d">>, <<"b", "n", "o", "d", "e", SP, "b", "o", "g", "u", "s", SP, "b", "a", "r", SP, "1">>, <<"e", "n", "d">>, <<"r", "e", "s", "t", "r", "i", "c", "t", "m", "o", "d", "e", SP, "1">>>> }

\* The lines of a file whose lines have the given texts, each with its
\* newline.
Lines(texts) == [i \in DOMAIN texts |-> texts[i] \o <<LF>>]

\* The file without the newline of its last line.
Unterminated(file) ==
    [file EXCEPT ![Len(file)] = SubSeq(@, 1, Len(@) - 1)]

\* Files of settings and stray lines.
GlobalFiles ==
    SeqsUpTo({t \o <<LF>> : t \in GlobalLines}, MaxGlobalLines)

\* Files that start with a block with up to MaxParmLines parm lines.
BlockFiles ==
    {Lines(<<b>> \o [i \in DOMAIN ps |-> TAG_parm \o ps[i]] \o c) :
        b \in DeepBnodeLines, ps \in SeqsUpTo(ParmTexts, MaxParmLines),
        c \in Closings}

\* Files of one block with each of the bnode lines and up to two parm lines.
ShallowBlockFiles ==
    {Lines(<<b>> \o [i \in 1..n |-> TAG_parm \o <<"a">>] \o <<TAG_end>>) :
        b \in BnodeLines, n \in 0..2}

\* Files whose last line has no newline.
UnterminatedFiles ==
    {Unterminated(f) :
        f \in {g \in ShallowBlockFiles \cup GlobalFiles :
                   Len(g) > 0 /\ Len(g[Len(g)]) > 1}}

BzAllocFaults == [kind : {"alloc"}, at : 1..MaxBzFaultAt]

\* The runs that start with ReadBozoFile, as the tests start it: the file,
\* the injected failure, and the code a test expects (if the file is a
\* test's).
ReadScenarios ==
    {[config |-> read_test_cases[i].config, fault |-> NoBzFault,
      test_code |-> Ptr(read_test_cases[i].test_code)] :
        i \in DOMAIN read_test_cases}
    \cup [config : {Ptr(f) : f \in GlobalFiles \cup BlockFiles
                                   \cup ShallowBlockFiles
                                   \cup UnterminatedFiles},
          fault : {NoBzFault}, test_code : {NULLPTR}]
    \cup [config : {Ptr(f) : f \in ShallowBlockFiles},
          fault : BzAllocFaults, test_code : {NULLPTR}]
    \cup [config : {NULLPTR, Ptr(Lines(<<TAG_restrictmode \o <<"1">>>>))},
          fault : {[kind |-> "fopen", at |-> 0]}, test_code : {NULLPTR}]

\* The arguments of the bnode_Create calls that set up the bnodes of the
\* runs that start with WriteBozoFile.
CreateArgs ==
    { [type |-> TYPE_simple, instance |-> TYPE_test,
       args |-> [NoParms EXCEPT ![1] = Ptr(TYPE_test)],
       notifier |-> NULLPTR, fileGoal |-> 1],
      [type |-> TYPE_test, instance |-> <<"f">>, args |-> NoParms,
       notifier |-> NULLPTR, fileGoal |-> 0],
      [type |-> TYPE_test, instance |-> <<"g">>,
       args |-> [NoParms EXCEPT ![1] = Ptr(<<"a">>), ![3] = Ptr(<<"b">>)],
       notifier |-> Ptr(<<"/", "n">>), fileGoal |-> 1],
      [type |-> TYPE_test, instance |-> <<"h">>,
       args |-> [i \in 1..5 |-> Ptr(IF i = 2 THEN <<>> ELSE <<"a", SP, "b">>)],
       notifier |-> NULLPTR, fileGoal |-> 1] }

\* The bnodes after bnode_Create was called with each of the arguments.
RECURSIVE Created(_)
Created(cs) ==
    IF cs = <<>> THEN <<>>
    ELSE LET c == cs[Len(cs)]
         IN  bnode_Create(c.type, c.instance, c.args, c.notifier, c.fileGoal,
                          Created(SubSeq(cs, 1, Len(cs) - 1))).bnodes

WriteGlobals ==
    { [isrestricted |-> 0, restartKT |-> KtimeAll(0), dayKT |-> KtimeAll(0)],
      [isrestricted |-> 1,
       restartKT |-> [mask |-> 16, day |-> 0, hour |-> 4, min |-> 0, sec |-> 0],
       dayKT |-> [mask |-> 3, day |-> 6, hour |-> 23, min |-> 59, sec |-> 59]] }

BzWriteFaults ==
    [kind : {"wfopen", "getparm", "ferror", "fclose", "rename"}, at : {0}]

\* The runs that start with WriteBozoFile: the globals, the bnodes, the
\* file that exists before the call (none, or the empty file of the tests)
\* and the injected failure.
WriteScenarios ==
    [globals : WriteGlobals,
     bnodes : {Created(cs) : cs \in SeqsUpTo(CreateArgs, MaxWriteBnodes)},
     target : {NULLPTR, Ptr(<<>>)},
     fault : {NoBzFault} \cup BzWriteFaults]

\* READ_TEST_SETUP followed by ReadBozoFile, or WRITE_TEST_SETUP followed
\* by WriteBozoFile.
BozoInit ==
    /\ CmdIdle
    /\ GetlineIdle
    /\ bz_state = 0
    /\ bz_line = 1
    /\ bnode_info = NULLPTR
    /\ bz_code = SUCCESS
    /\ bz_nalloc = 0
    /\ bz_live = 0
    /\ bnode_calls = <<>>
    /\ bz_before = NULLPTR
    /\ bz_rounds = 0
    /\ \/ \E s \in ReadScenarios :
             /\ bz_pc = "read"
             /\ bz_fs = [target |-> s.config, nbz |-> NULLPTR]
             /\ bz_fault = s.fault
             /\ test_code = s.test_code
             /\ bozo_isrestricted = -1
             /\ bozo_nextRestartKT = KtimeAll(-1)
             /\ bozo_nextDayKT = KtimeAll(-1)
             /\ allBnodes = <<>>
       \/ \E s \in WriteScenarios :
             /\ bz_pc = "write"
             /\ bz_fs = [target |-> s.target, nbz |-> NULLPTR]
             /\ bz_fault = s.fault
             /\ test_code = NULLPTR
             /\ bozo_isrestricted = s.globals.isrestricted
             /\ bozo_nextRestartKT = s.globals.restartKT
             /\ bozo_nextDayKT = s.globals.dayKT
             /\ allBnodes = s.bnodes

BozoNext ==
    \/ ReadBozoFile_open /\ UNCHANGED <<vars, glvars>>
    \/ ReadBozoFile_line /\ UNCHANGED <<vars, glvars>>
    \/ ReadBozoFile_eof /\ UNCHANGED <<vars, glvars>>
    \/ WriteBozoFile /\ UNCHANGED <<vars, glvars>>
    \/ Restart /\ UNCHANGED <<vars, glvars>>

SpecBozo == BozoInit /\ [][BozoNext]_bzvars


(***************************************************************************)
(* C23.  The tag order of a BosConfig file.                                *)
(***************************************************************************)
\* The tag a line starts with, whatever the position of the line.
TagOf(buffer) ==
    IF StartsWith(buffer, TAG_restrictmode) THEN "restrictmode"
    ELSE IF StartsWith(buffer, TAG_restarttime) THEN "restarttime"
    ELSE IF StartsWith(buffer, TAG_checkbintime) THEN "checkbintime"
    ELSE IF StartsWith(buffer, TAG_bnode) THEN "bnode"
    ELSE IF StartsWith(buffer, TAG_parm) THEN "parm"
    ELSE IF StartsWith(buffer, TAG_end) THEN "end"
    ELSE "none"

\* Line k of the file follows a bnode line with no end line in between.
InBlock(file, k) ==
    \E j \in 1..(k - 1) :
        /\ j <= Len(file)
        /\ TagOf(Chomp(file[j])) = "bnode"
        /\ \A i \in (j + 1)..(k - 1) : TagOf(Chomp(file[i])) # "end"

\* Line k of the file is out of order: a tag of the other position, no
\* tag, or an end line with characters after the tag.
OutOfOrder(file, k) ==
    LET buffer == Chomp(file[k])
    IN  \/ TagOf(buffer) = "none"
        \/ InBlock(file, k) /\ TagOf(buffer) \notin {"parm", "end"}
        \/ ~InBlock(file, k) /\ TagOf(buffer) \in {"parm", "end"}
        \/ TagOf(buffer) = "end" /\ buffer # TAG_end

\* The file being read.
TheFile == bz_fs.target[1]

\* C23, the step: reading a line that is out of order, or finding the end
\* of the file inside a block, makes ReadBozoFile return BZSYNTAX; a line
\* is accepted only in its position.
C23_Step ==
    bz_pc = "reading" =>
        IF bz_line > Len(TheFile)
        THEN InBlock(TheFile, bz_line) =>
                 bz_pc' = "returned" /\ bz_code' = BZSYNTAX
        ELSE /\ OutOfOrder(TheFile, bz_line) =>
                    bz_pc' = "returned" /\ bz_code' = BZSYNTAX
             /\ bz_pc' = "reading" =>
                    /\ bz_line' = bz_line + 1
                    /\ ~OutOfOrder(TheFile, bz_line)

\* C23, the result: every line read before the current one was in order,
\* and a file ReadBozoFile accepted has every line in order and no block
\* open at its end.
C23_Result ==
    /\ bz_pc = "reading" =>
           \A k \in 1..(bz_line - 1) : ~OutOfOrder(TheFile, k)
    /\ bz_pc = "returned" /\ bz_code = SUCCESS /\ bz_fs.target # NULLPTR =>
           /\ \A k \in 1..Len(TheFile) : ~OutOfOrder(TheFile, k)
           /\ ~InBlock(TheFile, Len(TheFile) + 1)

\* C23: ReadBozoFile enforces the order of the tags and returns BZSYNTAX
\* for a file that breaks it.
C23_TagOrder == []C23_Result /\ [][C23_Step]_bzvars

\* The test "out of order tags": a restrictmode line after the bnode line
\* was rejected at line 2.
C23_Witness ==
    /\ bz_pc = "returned"
    /\ bz_code = BZSYNTAX
    /\ test_code = Ptr(BZSYNTAX)
    /\ bz_line = 2
    /\ InBlock(TheFile, 2)
    /\ TagOf(Chomp(TheFile[2])) = "restrictmode"
    /\ Len(TheFile) = 9
    /\ allBnodes = <<>>

(***************************************************************************)
(* C24.  The bnode_Create call of a block.                                 *)
(***************************************************************************)
\* The indices at which a space-separated field of t starts.
FieldStarts(t) ==
    {i \in 1..Len(t) : t[i] # SP /\ (i = 1 \/ t[i - 1] = SP)}

\* The index at which the n-th field of t starts.
FieldStart(t, n) ==
    CHOOSE s \in FieldStarts(t) :
        Cardinality({x \in FieldStarts(t) : x < s}) = n - 1

\* The index at which the n-th field of t ends.
FieldEnd(t, n) ==
    CHOOSE e \in FieldStart(t, n)..Len(t) :
        /\ e = Len(t) \/ t[e + 1] = SP
        /\ \A i \in FieldStart(t, n)..e : t[i] # SP

Field(t, n) == SubSeq(t, FieldStart(t, n), FieldEnd(t, n))

\* What follows the space after the third field of t, if anything does.
AfterGoal(t) ==
    IF FieldEnd(t, 3) + 2 <= Len(t)
    THEN Ptr(SubSeq(t, FieldEnd(t, 3) + 2, Len(t)))
    ELSE NULLPTR

\* The end lines among the first k lines of the file.
EndLines(file, k) ==
    {e \in 1..k : e <= Len(file) /\ TagOf(Chomp(file[e])) = "end"}

\* The bnode line of the block that the end line e closes.
BnodeLineOf(file, e) ==
    CHOOSE b \in 1..(e - 1) :
        /\ TagOf(Chomp(file[b])) = "bnode"
        /\ \A i \in (b + 1)..(e - 1) : TagOf(Chomp(file[i])) # "bnode"

\* The arguments the block closed by the end line e gives, read from the
\* file: the fields of its bnode line and the texts of the lines between
\* the bnode line and the end line.
BlockArgs(file, e) ==
    LET b == BnodeLineOf(file, e)
        t == From(Chomp(file[b]), Len(TAG_bnode))
    IN  [type |-> Field(t, 1),
         instance |-> Field(t, 2),
         args |-> [i \in 1..5 |->
                      IF b + i < e
                      THEN Ptr(From(Chomp(file[b + i]), Len(TAG_parm)))
                      ELSE NULLPTR],
         notifier |-> AfterGoal(t)]

\* The calls of bnode_Create so far.
CreateCalls == SelectSeq(bnode_calls, LAMBDA c : c.op = "bnode_Create")

\* The lines ReadBozoFile has finished with: those before the current
\* line and, once it has returned from the end line of a block, that line.
LinesDone ==
    IF /\ bz_pc = "returned" /\ bz_line <= Len(TheFile)
       /\ Chomp(TheFile[bz_line]) = TAG_end /\ InBlock(TheFile, bz_line)
    THEN bz_line ELSE bz_line - 1

\* C24: while and after a file is read, the calls of bnode_Create are, in
\* file order, one for each end line finished, each with the type and
\* instance of the block's bnode line, the texts of the block's parm
\* lines in slots 0..4 in file order and NULL in the other slots, and the
\* block's notifier or NULL; the bnodes that exist are those of the calls
\* that succeeded, in the same order.
C24_CreatePerBlock ==
    bz_pc \in {"reading", "returned"} /\ bz_fs.target # NULLPTR
    /\ bz_fault.kind # "fopen" =>
        LET ends == EndLines(TheFile, LinesDone)
            made == SelectSeq(CreateCalls, LAMBDA c : c.code = SUCCESS)
        IN  /\ Len(CreateCalls) = Cardinality(ends)
            /\ \A i \in 1..Len(CreateCalls) :
                  LET c == CreateCalls[i]
                      x == BlockArgs(TheFile, c.line)
                  IN  /\ c.line \in ends
                      /\ Cardinality({e \in ends : e < c.line}) = i - 1
                      /\ c.type = x.type
                      /\ c.instance = x.instance
                      /\ c.args = x.args
                      /\ c.notifier = x.notifier
                      /\ c.code # SUCCESS => i = Len(CreateCalls)
            /\ Len(allBnodes) = Len(made)
            /\ \A i \in 1..Len(made) :
                  /\ allBnodes[i].type = made[i].type
                  /\ allBnodes[i].name = made[i].instance
                  /\ allBnodes[i].args = made[i].args
                  /\ allBnodes[i].notifier = made[i].notifier

\* A file of two blocks was read: the first has a notifier and five
\* parameters, the second one parameter and no notifier.
C24_Witness ==
    /\ bz_pc = "returned"
    /\ bz_code = SUCCESS
    /\ bz_rounds = 0
    /\ bz_before = NULLPTR
    /\ Len(allBnodes) = 2
    /\ allBnodes[1].notifier # NULLPTR
    /\ \A i \in 1..5 : allBnodes[1].args[i] # NULLPTR
    /\ allBnodes[2].notifier = NULLPTR
    /\ allBnodes[2].args = [NoParms EXCEPT ![1] = Ptr(<<"b">>)]
    /\ Len(CreateCalls) = 2

(***************************************************************************)
(* C25.  At most five parm lines in a block.                               *)
(***************************************************************************)
\* The lines between line k and the last bnode line before it.
ParmsBefore(file, k) ==
    k - 1 - (CHOOSE b \in 1..(k - 1) :
                 /\ TagOf(Chomp(file[b])) = "bnode"
                 /\ \A i \in (b + 1)..(k - 1) : TagOf(Chomp(file[i])) # "bnode")

\* A parm line of a block is the next line to read.
AtParmLine ==
    /\ bz_pc = "reading"
    /\ bz_line <= Len(TheFile)
    /\ InBlock(TheFile, bz_line)
    /\ TagOf(Chomp(TheFile[bz_line])) = "parm"

\* C25, the step: the sixth parm line of a block makes ReadBozoFile return
\* BZSYNTAX with no call to the bnode library; an earlier one is accepted,
\* unless its copy cannot be allocated, and its text, empty or not,
\* becomes the next parameter.
C25_Step ==
    AtParmLine =>
        IF ParmsBefore(TheFile, bz_line) >= 5
        THEN /\ bz_pc' = "returned"
             /\ bz_code' = BZSYNTAX
             /\ allBnodes' = allBnodes
             /\ bnode_calls' = bnode_calls
        ELSE \/ /\ bz_pc' = "returned"
                /\ bz_code' = ENOMEM
                /\ ~BzAllocOk(bz_nalloc + 1)
             \/ /\ bz_pc' = "reading"
                /\ bnode_info'[1].nparms = ParmsBefore(TheFile, bz_line) + 1
                /\ bnode_info'[1].parm[bnode_info'[1].nparms]
                       = Ptr(From(Chomp(TheFile[bz_line]), Len(TAG_parm)))

\* C25, the count: the block under construction has as many parameters as
\* parm lines were read since its bnode line, never more than five, in the
\* first slots.
C25_Result ==
    bnode_info # NULLPTR =>
        /\ bnode_info[1].nparms <= 5
        /\ bz_pc = "reading" =>
               bnode_info[1].nparms = ParmsBefore(TheFile, bz_line)
        /\ \A i \in 1..5 :
               (bnode_info[1].parm[i] # NULLPTR) <=> (i <= bnode_info[1].nparms)

\* C25: a block holds at most five parm lines.
C25_FiveParms == []C25_Result /\ [][C25_Step]_bzvars

\* The test "too many parm tags": the sixth parm line, at line 7 of the
\* file, was rejected and no bnode was created.
C25_Witness ==
    /\ bz_pc = "returned"
    /\ bz_code = BZSYNTAX
    /\ test_code = Ptr(BZSYNTAX)
    /\ bz_line = 7
    /\ TagOf(Chomp(TheFile[7])) = "parm"
    /\ ParmsBefore(TheFile, 7) = 5
    /\ allBnodes = <<>>
    /\ bnode_calls = <<>>

\* The test "max parm tags" and a block with an empty parm line: the bnode
\* has five parameters, the second of them the empty string.
C25_FiveAccepted ==
    /\ bz_pc = "returned"
    /\ bz_code = SUCCESS
    /\ Len(allBnodes) = 1
    /\ \A i \in 1..5 : allBnodes[1].args[i] # NULLPTR
    /\ allBnodes[1].args[2] = Ptr(<<>>)

(***************************************************************************)
(* C26.  The goal field of a bnode line.                                   *)
(***************************************************************************)
\* s is an integer in decimal notation: an optional sign and digits.
IsInteger(s) ==
    LET d == IF s # <<>> /\ s[1] \in {"+", "-"} THEN 2 ELSE 1
    IN  /\ Len(s) >= d
        /\ \A i \in d..Len(s) : s[i] \in Digits

\* The integer s is zero.
IsZero(s) == \A i \in 1..Len(s) : s[i] \in {"+", "-", "0"}

\* The text of a bnode line after its tag.
BnodeText(file, b) == From(Chomp(file[b]), Len(TAG_bnode))

\* The bnode line has a type, an instance and a goal that is an integer.
HasGoal(t) ==
    /\ Cardinality(FieldStarts(t)) >= 3
    /\ IsInteger(Field(t, 3))

\* The state the goal of a bnode line asks for.
GoalOf(t) == IF IsZero(Field(t, 3)) THEN BSTAT_SHUTDOWN ELSE BSTAT_NORMAL

\* A bnode line outside a block is the next line to read.
AtBnodeLine ==
    /\ bz_pc = "reading"
    /\ bz_line <= Len(TheFile)
    /\ ~InBlock(TheFile, bz_line)
    /\ TagOf(Chomp(TheFile[bz_line])) = "bnode"

\* C26, the step: a bnode line without an integer goal makes ReadBozoFile
\* return BZSYNTAX with no call to the bnode library; with one, the line
\* is accepted, unless an allocation fails, and the goal kept for the
\* block is 0 for the integer zero and 1 for any other integer.
C26_Step ==
    AtBnodeLine =>
        IF ~HasGoal(BnodeText(TheFile, bz_line))
        THEN /\ bz_pc' = "returned"
             /\ bz_code' = BZSYNTAX
             /\ allBnodes' = allBnodes
             /\ bnode_calls' = bnode_calls
        ELSE \/ /\ bz_pc' = "returned"
                /\ bz_code' = ENOMEM
                /\ bz_fault.kind = "alloc"
             \/ /\ bz_pc' = "reading"
                /\ bnode_info'[1].fileGoal = GoalOf(BnodeText(TheFile, bz_line))

\* C26, the result: every bnode created while the file is read has, once
\* its end line is done, the goal and the status its bnode line asks for
\* (0: shutdown, any other integer: normal), set by one bnode_SetStat call
\* at the end line.
C26_Result ==
    bz_pc \in {"reading", "returned"} /\ bz_fs.target # NULLPTR
    /\ bz_fault.kind # "fopen" =>
        LET made == SelectSeq(CreateCalls, LAMBDA c : c.code = SUCCESS)
        IN  \A i \in 1..Len(made) :
                LET t == BnodeText(TheFile, BnodeLineOf(TheFile, made[i].line))
                IN  /\ HasGoal(t)
                    /\ allBnodes[i].fileGoal = GoalOf(t)
                    /\ allBnodes[i].status = GoalOf(t)
                    /\ Cardinality({k \in DOMAIN bnode_calls :
                           /\ bnode_calls[k].op = "bnode_SetStat"
                           /\ bnode_calls[k].index = i}) = 1
                    /\ \E k \in DOMAIN bnode_calls :
                           /\ bnode_calls[k].op = "bnode_SetStat"
                           /\ bnode_calls[k].index = i
                           /\ bnode_calls[k].line = made[i].line
                           /\ bnode_calls[k].status = GoalOf(t)

\* C26: the goal of the bnode line decides the state of the bnode.
C26_Goal == []C26_Result /\ [][C26_Step]_bzvars

\* The test "non-zero bnode goal is accepted as 1": the goal 2 gave a
\* bnode in the normal state.
C26_Witness ==
    /\ bz_pc = "returned"
    /\ bz_code = SUCCESS
    /\ test_code = Ptr(SUCCESS)
    /\ bz_fs.target # NULLPTR
    /\ Len(TheFile) = 2
    /\ TagOf(Chomp(TheFile[1])) = "bnode"
    /\ Field(BnodeText(TheFile, 1), 3) = <<"2">>
    /\ Len(allBnodes) = 1
    /\ allBnodes[1].status = BSTAT_NORMAL
    /\ allBnodes[1].fileGoal = BSTAT_NORMAL


(***************************************************************************)
(* C27.  The values of the global settings.                                *)
(***************************************************************************)
\* The sum of the digits of s from index i on, each at its decimal place.
RECURSIVE PlaceSum(_, _)
PlaceSum(s, i) ==
    IF i > Len(s) THEN 0
    ELSE DigitVal(s[i]) * 10 ^ (Len(s) - i) + PlaceSum(s, i + 1)

\* The number the integer s denotes.
NumberOf(s) ==
    IF s[1] = "-" THEN 0 - PlaceSum(s, 2)
    ELSE IF s[1] = "+" THEN PlaceSum(s, 2)
    ELSE PlaceSum(s, 1)

\* The text t is made of exactly n integers separated by spaces, with no
\* character after the last.
IsIntegers(t, n) ==
    /\ Cardinality(FieldStarts(t)) = n
    /\ t # <<>> /\ t[Len(t)] # SP
    /\ \A k \in 1..n : IsInteger(Field(t, k))

\* The text of a restrictmode line is the integer 0 or 1.
ValidBool(t) ==
    /\ IsIntegers(t, 1)
    /\ NumberOf(Field(t, 1)) \in {0, 1}

\* The text of a restarttime or checkbintime line is five integers with
\* the day, the hour, the minute and the second in their ranges.
ValidKtime(t) ==
    /\ IsIntegers(t, 5)
    /\ NumberOf(Field(t, 2)) \in 0..6
    /\ NumberOf(Field(t, 3)) \in 0..23
    /\ NumberOf(Field(t, 4)) \in 0..59
    /\ NumberOf(Field(t, 5)) \in 0..59

\* The time the five integers of t denote.
KtimeOf(t) ==
    [mask |-> NumberOf(Field(t, 1)), day |-> NumberOf(Field(t, 2)),
     hour |-> NumberOf(Field(t, 3)), min |-> NumberOf(Field(t, 4)),
     sec |-> NumberOf(Field(t, 5))]

\* A line with the tag of a global setting, outside a block, is the next
\* line to read.
AtSettingLine ==
    /\ bz_pc = "reading"
    /\ bz_line <= Len(TheFile)
    /\ ~InBlock(TheFile, bz_line)
    /\ TagOf(Chomp(TheFile[bz_line])) \in
           {"restrictmode", "restarttime", "checkbintime"}

\* C27, the step: reading the line of a global setting either writes the
\* value of a fully valid line to the global of the tag and to no other,
\* or returns BZSYNTAX and leaves the three globals as they were; no other
\* step of ReadBozoFile changes a global.
C27_Step ==
    /\ AtSettingLine =>
        LET buffer == Chomp(TheFile[bz_line])
            tag == TagOf(buffer)
            t == From(buffer,
                      CASE tag = "restrictmode" -> Len(TAG_restrictmode)
                        [] tag = "restarttime" -> Len(TAG_restarttime)
                        [] tag = "checkbintime" -> Len(TAG_checkbintime))
            valid == IF tag = "restrictmode" THEN ValidBool(t)
                     ELSE ValidKtime(t)
        IN  IF valid
            THEN /\ bz_pc' = "reading"
                 /\ bozo_isrestricted' =
                        IF tag = "restrictmode" THEN NumberOf(Field(t, 1))
                        ELSE bozo_isrestricted
                 /\ bozo_nextRestartKT' =
                        IF tag = "restarttime" THEN KtimeOf(t)
                        ELSE bozo_nextRestartKT
                 /\ bozo_nextDayKT' =
                        IF tag = "checkbintime" THEN KtimeOf(t)
                        ELSE bozo_nextDayKT
            ELSE /\ bz_pc' = "returned"
                 /\ bz_code' = BZSYNTAX
                 /\ bozo_isrestricted' = bozo_isrestricted
                 /\ bozo_nextRestartKT' = bozo_nextRestartKT
                 /\ bozo_nextDayKT' = bozo_nextDayKT
    /\ bz_pc \in {"read", "reading"} /\ ~AtSettingLine =>
           /\ bozo_isrestricted' = bozo_isrestricted
           /\ bozo_nextRestartKT' = bozo_nextRestartKT
           /\ bozo_nextDayKT' = bozo_nextDayKT

\* C27: a global setting is written only from a fully valid line; any other
\* value returns BZSYNTAX and leaves the global as it was.
C27_ValidSettings == [][C27_Step]_bzvars

(***************************************************************************)
(* C28.  A bnode_Create failure at an end line.                            *)
(***************************************************************************)
\* The end line of a block is the next line to read.
AtEndLine ==
    /\ bz_pc = "reading"
    /\ bz_line <= Len(TheFile)
    /\ InBlock(TheFile, bz_line)
    /\ Chomp(TheFile[bz_line]) = TAG_end

\* The number of parm lines of the block closed by the end line e.
ParmCount(file, e) == e - BnodeLineOf(file, e) - 1

\* What creating the bnode of the block closed by the end line e gives,
\* read from the file: the type is unknown, the type rejects the number of
\* parameters of the block, or the bnode is created.
BlockCode(file, e) ==
    LET type == BlockArgs(file, e).type
        n == ParmCount(file, e)
    IN  IF type = TYPE_test THEN SUCCESS
        ELSE IF type = TYPE_simple
        THEN (IF n = 1 THEN SUCCESS ELSE BZNOCREATE)
        ELSE IF type = TYPE_cron
        THEN (IF n = 2 THEN SUCCESS ELSE BZNOCREATE)
        ELSE IF type = TYPE_fs
        THEN (IF n = 3 THEN SUCCESS ELSE BZNOCREATE)
        ELSE IF type = TYPE_dafs
        THEN (IF n = 4 THEN SUCCESS ELSE BZNOCREATE)
        ELSE BZBADTYPE

\* C28, the step: at the end line of a block whose bnode cannot be
\* created, ReadBozoFile makes the one call of bnode_Create, returns its
\* code, adds no bnode, sets no status and stays at the line; once it has
\* returned, it reads no line and makes no call.
C28_Step ==
    /\ AtEndLine /\ BlockCode(TheFile, bz_line) # SUCCESS =>
        /\ bz_pc' = "returned"
        /\ bz_code' = BlockCode(TheFile, bz_line)
        /\ allBnodes' = allBnodes
        /\ Len(bnode_calls') = Len(bnode_calls) + 1
        /\ SubSeq(bnode_calls', 1, Len(bnode_calls)) = bnode_calls
        /\ bnode_calls'[Len(bnode_calls')].op = "bnode_Create"
        /\ bnode_calls'[Len(bnode_calls')].line = bz_line
        /\ bnode_calls'[Len(bnode_calls')].code = BlockCode(TheFile, bz_line)
        /\ bz_line' = bz_line
    /\ bz_pc = "returned" =>
        /\ allBnodes' = allBnodes
        /\ bnode_calls' = bnode_calls
        /\ bz_line' = bz_line
        /\ bz_pc' # "reading"

\* C28, the result: a failed call of bnode_Create is the last call made to
\* the bnode library; its code is BZBADTYPE or BZNOCREATE and is the code
\* ReadBozoFile returned; no status was set at its line, and the bnodes
\* are those of the calls that succeeded.
C28_Result ==
    \A k \in DOMAIN bnode_calls :
        bnode_calls[k].op = "bnode_Create" /\ bnode_calls[k].code # SUCCESS =>
            /\ k = Len(bnode_calls)
            /\ bnode_calls[k].code \in {BZBADTYPE, BZNOCREATE}
            /\ bz_pc \in {"returned", "written"}
            /\ bz_pc = "returned" => bz_code = bnode_calls[k].code
            /\ bz_line = bnode_calls[k].line
            /\ \A j \in DOMAIN bnode_calls :
                   bnode_calls[j].op = "bnode_SetStat" =>
                       bnode_calls[j].line < bnode_calls[k].line
            /\ Len(allBnodes) =
                   Cardinality({j \in DOMAIN bnode_calls :
                                    /\ bnode_calls[j].op = "bnode_Create"
                                    /\ bnode_calls[j].code = SUCCESS})

\* C28: a failure of bnode_Create ends the reading with the code of
\* bnode_Create and without a bnode for the block.
C28_CreateFailure == []C28_Result /\ [][C28_Step]_bzvars

\* A block of unknown type after a block that gave a bnode: bnode_Create
\* returned BZBADTYPE, the bnode of the first block is the only one, and
\* the line after the block was not read.
C28_Witness ==
    /\ bz_pc = "returned"
    /\ bz_code = BZBADTYPE
    /\ Len(allBnodes) = 1
    /\ Len(bnode_calls) = 3
    /\ bz_line < Len(bz_fs.target[1])

(***************************************************************************)
(* C29.  A cold start.                                                     *)
(***************************************************************************)
\* C29, the step: when ReadBozoFile opens the file, a file that does not
\* exist makes it return 0 with the bnodes and the three globals as they
\* were and no call to the bnode library; any other failure to open makes
\* it return a non-zero code, with the same left alone; otherwise it goes
\* on to read the file.
C29_Step ==
    bz_pc = "read" =>
        IF bz_fault.kind = "fopen" \/ bz_fs.target = NULLPTR
        THEN /\ bz_pc' = "returned"
             /\ (bz_code' = SUCCESS) <=> (bz_fault.kind # "fopen")
             /\ allBnodes' = allBnodes
             /\ bnode_calls' = bnode_calls
             /\ bozo_isrestricted' = bozo_isrestricted
             /\ bozo_nextRestartKT' = bozo_nextRestartKT
             /\ bozo_nextDayKT' = bozo_nextDayKT
        ELSE bz_pc' = "reading"

\* C29, the result: ReadBozoFile returns 0 from a file that exists and is
\* empty, with no bnode created.
C29_Result ==
    /\ bz_pc = "returned"
    /\ bz_fault.kind # "fopen"
    /\ bz_fs.target = Ptr(<<>>)
    => /\ bz_code = SUCCESS
       /\ allBnodes = <<>>
       /\ bnode_calls = <<>>

\* C29: a missing file is a cold start, an empty file gives no bnode, and
\* another failure to open the file is an error.
C29_ColdStart == []C29_Result /\ [][C29_Step]_bzvars

\* The test "no file": ReadBozoFile returned 0 without a file, and the
\* globals are as the test set them.
C29_Witness ==
    /\ bz_pc = "returned"
    /\ bz_fs.target = NULLPTR
    /\ bz_fault.kind = "none"
    /\ test_code = Ptr(SUCCESS)
    /\ bz_code = SUCCESS
    /\ allBnodes = <<>>
    /\ bozo_isrestricted = -1
    /\ bozo_nextRestartKT = KtimeAll(-1)
    /\ bozo_nextDayKT = KtimeAll(-1)

(***************************************************************************)
(* C30.  The file WriteBozoFile writes.                                    *)
(***************************************************************************)
\* s is the number v as printf("%d") prints it.
IsDecimal(s, v) ==
    /\ IsInteger(s)
    /\ s[1] # "+"
    /\ LET d == IF s[1] = "-" THEN 2 ELSE 1
       IN  Len(s) > d => s[d] # "0"
    /\ s # <<"-", "0">>
    /\ NumberOf(s) = v

\* The text t is n fields separated by one space each.
SingleSpaced(t, n) ==
    /\ Cardinality(FieldStarts(t)) = n
    /\ Cardinality({i \in 1..Len(t) : t[i] = SP}) = n - 1

\* The line is the tag followed by the five numbers of the time and a
\* newline.
IsKtimeLine(ln, tag, t) ==
    /\ StartsWith(ln, tag)
    /\ ln[Len(ln)] = LF
    /\ LET x == SubSeq(ln, Len(tag) + 1, Len(ln) - 1)
       IN  /\ SingleSpaced(x, 5)
           /\ IsDecimal(Field(x, 1), t.mask)
           /\ IsDecimal(Field(x, 2), t.day)
           /\ IsDecimal(Field(x, 3), t.hour)
           /\ IsDecimal(Field(x, 4), t.min)
           /\ IsDecimal(Field(x, 5), t.sec)

\* The number of parameters of a bnode up to the first missing index.
ParmsSet(bnode) ==
    Cardinality({k \in 1..5 : \A j \in 1..k : bnode.args[j] # NULLPTR})

\* The number of lines of the file before the block of the i-th bnode.
RECURSIVE LinesBefore(_, _)
LinesBefore(bnodes, i) ==
    IF i = 1 THEN 3
    ELSE LinesBefore(bnodes, i - 1) + ParmsSet(bnodes[i - 1]) + 2

\* The line is 'bnode <type> <name> <goal>' with the notifier appended
\* when the bnode has one.
IsBnodeLine(ln, bnode) ==
    LET head == TAG_bnode \o bnode.type \o <<SP>> \o bnode.name \o <<SP>>
        tail == (IF bnode.notifier # NULLPTR
                 THEN <<SP>> \o bnode.notifier[1] ELSE <<>>) \o <<LF>>
    IN  /\ Len(ln) > Len(head) + Len(tail)
        /\ SubSeq(ln, 1, Len(head)) = head
        /\ SubSeq(ln, Len(ln) - Len(tail) + 1, Len(ln)) = tail
        /\ IsDecimal(SubSeq(ln, Len(head) + 1, Len(ln) - Len(tail)),
                     bnode.fileGoal)

\* The file is what the claim says for the globals and the bnodes g.
IsBozoFile(file, g) ==
    /\ Len(file) = LinesBefore(g.bnodes, Len(g.bnodes) + 1)
    /\ StartsWith(file[1], TAG_restrictmode)
    /\ file[1][Len(file[1])] = LF
    /\ IsDecimal(SubSeq(file[1], Len(TAG_restrictmode) + 1, Len(file[1]) - 1),
                 g.isrestricted)
    /\ IsKtimeLine(file[2], TAG_restarttime, g.restartKT)
    /\ IsKtimeLine(file[3], TAG_checkbintime, g.dayKT)
    /\ \A i \in 1..Len(g.bnodes) :
          LET b == LinesBefore(g.bnodes, i) + 1
              n == ParmsSet(g.bnodes[i])
          IN  /\ IsBnodeLine(file[b], g.bnodes[i])
              /\ \A k \in 1..n :
                     file[b + k] =
                         TAG_parm \o g.bnodes[i].args[k][1] \o <<LF>>
              /\ file[b + n + 1] = TAG_end \o <<LF>>

\* C30: after a WriteBozoFile call that returned 0 the target file holds
\* the restrictmode, restarttime and checkbintime lines with the values of
\* the globals, then for each bnode, in order, its bnode line (with the
\* notifier when set), one parm line for each parameter up to the first
\* missing index, and an end line; nothing else.
C30_FileWritten ==
    bz_pc = "written" /\ bz_code = SUCCESS =>
        /\ bz_fs.target # NULLPTR
        /\ bz_before[1].isrestricted = bozo_isrestricted
        /\ bz_before[1].restartKT = bozo_nextRestartKT
        /\ bz_before[1].dayKT = bozo_nextDayKT
        /\ bz_before[1].bnodes = allBnodes
        /\ IsBozoFile(bz_fs.target[1], bz_before[1])

\* Two bnodes were written: one with a notifier and a parameter missing at
\* index 1, so that only its first parameter is in the file, and one with
\* five parameters.
C30_Witness ==
    /\ bz_pc = "written"
    /\ bz_code = SUCCESS
    /\ Len(allBnodes) = 2
    /\ allBnodes[1].notifier # NULLPTR
    /\ allBnodes[1].args[2] = NULLPTR
    /\ allBnodes[1].args[3] # NULLPTR
    /\ ParmsSet(allBnodes[2]) = 5
    /\ Len(bz_fs.target[1]) = 13
    /\ bozo_isrestricted = 1

\* A file without bnodes was written: it holds the three lines of the
\* globals.
C30_NoBnodes ==
    /\ bz_pc = "written"
    /\ bz_code = SUCCESS
    /\ allBnodes = <<>>
    /\ Len(bz_fs.target[1]) = 3

(***************************************************************************)
(* The token buffer byte by byte.  bytes is the allocation at token_start  *)
(* (byte i of the C array is element i + 1), token_end the offset of       *)
(* tb->token_end from tb->token_start.  The lexer above keeps the token    *)
(* as a string; here cmd_Tokenize runs on lines long enough for the        *)
(* buffer to grow, and the string handed to emit is the one strdup reads   *)
(* from the bytes.                                                         *)
(***************************************************************************)
\* n bytes of value zero.
Zeroed(n) == [i \in 1..n |-> NUL]

\* tb->token_start = calloc(TOKEN_BUFFER_INITIAL_SIZE, 1); ...
InitTokenBuffer ==
    [bytes |-> Zeroed(TOKEN_BUFFER_INITIAL_SIZE), token_end |-> 0,
     buffer_size |-> TOKEN_BUFFER_INITIAL_SIZE]

\* Only the end of the token is reset, the bytes are not set to zero.
ClearTokenBuffer_KeepsBytes(b) ==
    [b EXCEPT !.token_end = 0]

\* memset(tb->token_start, 0, tb->buffer_size); tb->token_end = tb->token_start;
ClearTokenBuffer(b) ==
    [b EXCEPT !.bytes = Zeroed(b.buffer_size), !.token_end = 0]

\* realloc(buffer, new_size) that succeeds: the bytes kept, and bytes no
\* one has written in the new region.
Realloc(buffer, new_size) ==
    [i \in 1..new_size |-> IF i <= Len(buffer) THEN buffer[i] ELSE GARBAGE]

\* realloc_clear(buffer, old_size, new_size) that succeeds: the new region
\* is set to zero.
ReallocClear(buffer, old_size, new_size) ==
    LET tbuffer == Realloc(buffer, new_size)
    IN  IF new_size > old_size
        THEN [i \in 1..new_size |-> IF i > old_size THEN NUL ELSE tbuffer[i]]
        ELSE tbuffer

\* The three assertions of accept_char.
AcceptAsserts(b) ==
    /\ 0 <= b.token_end
    /\ b.buffer_size > 0
    /\ b.token_end < b.buffer_size

\* The doubled size is not checked for overflow.
AcceptChar_NoOverflowCheck(b, ch, realloc_ok) ==
    LET token_length == b.token_end
        new_size == 2 * b.buffer_size
        grown == [bytes |-> ReallocClear(b.bytes, b.buffer_size, new_size),
                  token_end |-> token_length,
                  buffer_size |-> new_size]
        store(x) == [x EXCEPT !.bytes[x.token_end + 1] = ch,
                              !.token_end = @ + 1]
    IN  IF token_length + 1 = b.buffer_size
        THEN IF ~realloc_ok
             THEN [code |-> ENOMEM, tb |-> b]
             ELSE [code |-> SUCCESS, tb |-> store(grown)]
        ELSE [code |-> SUCCESS, tb |-> store(b)]

\* accept_char(tb, ch): the code and the buffer afterwards.  realloc_ok
\* tells whether the reallocation, if one is made, succeeds.
AcceptChar(b, ch, realloc_ok) ==
    LET token_length == b.token_end
        new_size == (2 * b.buffer_size) % SizeMod
        grown == [bytes |-> ReallocClear(b.bytes, b.buffer_size, new_size),
                  token_end |-> token_length,
                  buffer_size |-> new_size]
        store(x) == [x EXCEPT !.bytes[x.token_end + 1] = ch,
                              !.token_end = @ + 1]
    IN  IF token_length + 1 = b.buffer_size
        THEN IF new_size <= b.buffer_size
             THEN [code |-> ENOMEM, tb |-> b]
             ELSE IF ~realloc_ok
             THEN [code |-> ENOMEM, tb |-> b]
             ELSE [code |-> SUCCESS, tb |-> store(grown)]
        ELSE [code |-> SUCCESS, tb |-> store(b)]

\* Whether accept_char calls realloc.
AcceptReallocs(b) ==
    /\ b.token_end + 1 = b.buffer_size
    /\ (2 * b.buffer_size) % SizeMod > b.buffer_size

\* The string strdup(tb.token_start) reads: the bytes before the first zero
\* byte; NULLPTR when the buffer holds no zero byte and the read runs past
\* its end.
Strdup(b) ==
    IF \E i \in 1..b.buffer_size : b.bytes[i] = NUL
    THEN LET z == CHOOSE i \in 1..b.buffer_size :
                      /\ b.bytes[i] = NUL
                      /\ \A j \in 1..(i - 1) : b.bytes[j] # NUL
         IN  Ptr(SubSeq(b.bytes, 1, z - 1))
    ELSE NULLPTR

\* The switch of cmd_Tokenize: the state after the character ch is read in
\* the state st, and what is done with the character and the token.
Transition(st, ch) ==
    CASE st = "STATE_DELIM" ->
            (CASE ch = NUL -> [next |-> "STATE_END", op |-> "none"]
               [] ch = SQ -> [next |-> "STATE_SQUOTE", op |-> "none"]
               [] ch = DQ -> [next |-> "STATE_DQUOTE", op |-> "none"]
               [] ch = BS -> [next |-> "STATE_ESC", op |-> "none"]
               [] ch \in Whitespace -> [next |-> "STATE_DELIM", op |-> "none"]
               [] OTHER -> [next |-> "STATE_BARE", op |-> "accept"])
      [] st = "STATE_BARE" ->
            (CASE ch = NUL -> [next |-> "STATE_END", op |-> "emit"]
               [] ch \in Whitespace ->
                      [next |-> "STATE_DELIM", op |-> "emit_clear"]
               [] ch = SQ -> [next |-> "STATE_SQUOTE", op |-> "none"]
               [] ch = DQ -> [next |-> "STATE_DQUOTE", op |-> "none"]
               [] ch = BS -> [next |-> "STATE_ESC", op |-> "none"]
               [] OTHER -> [next |-> "STATE_BARE", op |-> "accept"])
      [] st = "STATE_SQUOTE" ->
            (CASE ch = NUL -> [next |-> "STATE_ERROR", op |-> CMD_BADFORMAT]
               [] ch = SQ -> [next |-> "STATE_BARE", op |-> "none"]
               [] OTHER -> [next |-> "STATE_SQUOTE", op |-> "accept"])
      [] st = "STATE_DQUOTE" ->
            (CASE ch = NUL -> [next |-> "STATE_ERROR", op |-> CMD_BADFORMAT]
               [] ch = DQ -> [next |-> "STATE_BARE", op |-> "none"]
               [] ch = BS -> [next |-> "STATE_QESC", op |-> "none"]
               [] OTHER -> [next |-> "STATE_DQUOTE", op |-> "accept"])
      [] st = "STATE_ESC" ->
            (CASE ch = NUL -> [next |-> "STATE_ERROR", op |-> CMD_BADFORMAT]
               [] OTHER -> [next |-> "STATE_BARE", op |-> "accept"])
      [] st = "STATE_QESC" ->
            (CASE ch = NUL -> [next |-> "STATE_ERROR", op |-> CMD_BADFORMAT]
               [] OTHER -> [next |-> "STATE_DQUOTE", op |-> "accept"])
      [] OTHER -> [next |-> "STATE_ERROR", op |-> CMD_INTERNALERROR]

\* code = init_token_buffer(&tb); if (code != 0) return code;
TokenizeBytes_init ==
    /\ pc = "tokenize"
    /\ nalloc' = nalloc + 1
    /\ IF AllocOk(nalloc + 1)
       THEN /\ tb' = Ptr(InitTokenBuffer)
            /\ code' = SUCCESS
            /\ pc' = "scan"
       ELSE /\ tb' = NULLPTR
            /\ code' = ENOMEM
            /\ pc' = "returned"
    /\ state' = "STATE_DELIM"
    /\ tp' = 1
    /\ UNCHANGED <<inputs, text, rock, emitted, heap, ret, pargc, pargv>>

\* One iteration of the loop of cmd_Tokenize.  An assertion of accept_char
\* that fails aborts the program; a strdup that runs past the end of the
\* buffer is an overrun.
TokenizeBytes_step ==
    /\ pc = "scan"
    /\ state \notin {"STATE_END", "STATE_ERROR"}
    /\ LET t == Transition(state, Cur)
       IN  CASE t.op = "accept" ->
                  IF ~AcceptAsserts(tb[1])
                  THEN /\ pc' = "abort"
                       /\ UNCHANGED <<state, tp, tb, code, nalloc, emitted,
                                      rock>>
                  ELSE LET r == AcceptChar(tb[1], Cur, AllocOk(nalloc + 1))
                       IN  /\ nalloc' = IF AcceptReallocs(tb[1])
                                        THEN nalloc + 1 ELSE nalloc
                           /\ code' = r.code
                           /\ tb' = Ptr(r.tb)
                           /\ IF r.code # SUCCESS
                              THEN pc' = "fail" /\ UNCHANGED <<state, tp>>
                              ELSE /\ pc' = pc
                                   /\ state' = t.next
                                   /\ tp' = tp + 1
                           /\ UNCHANGED <<emitted, rock>>
             [] t.op \in {"emit", "emit_clear"} ->
                  IF emit = "NULL"
                  THEN /\ state' = t.next
                       /\ tp' = tp + 1
                       /\ tb' = IF t.op = "emit_clear"
                                THEN Ptr(ClearTokenBuffer(tb[1])) ELSE tb
                       /\ UNCHANGED <<pc, code, nalloc, emitted, rock>>
                  ELSE IF Strdup(tb[1]) = NULLPTR
                  THEN /\ pc' = "overrun"
                       /\ UNCHANGED <<state, tp, tb, code, nalloc, emitted,
                                      rock>>
                  ELSE IF ~AllocOk(nalloc + 1)
                  THEN /\ nalloc' = nalloc + 1
                       /\ code' = ENOMEM
                       /\ pc' = "fail"
                       /\ UNCHANGED <<state, tp, tb, emitted, rock>>
                  ELSE LET token == Strdup(tb[1])[1]
                           e == callback(token, rock, Len(emitted) + 1)
                       IN  /\ nalloc' = nalloc + 1
                           /\ emitted' = Append(emitted, token)
                           /\ rock' = e.rock
                           /\ code' = e.code
                           /\ IF e.code # SUCCESS
                              THEN pc' = "fail" /\ UNCHANGED <<state, tp, tb>>
                              ELSE /\ pc' = pc
                                   /\ state' = t.next
                                   /\ tp' = tp + 1
                                   /\ tb' = IF t.op = "emit_clear"
                                            THEN Ptr(ClearTokenBuffer(tb[1]))
                                            ELSE tb
             [] t.op = "none" ->
                  /\ state' = t.next
                  /\ tp' = tp + 1
                  /\ UNCHANGED <<pc, tb, code, nalloc, emitted, rock>>
             [] OTHER ->
                  /\ code' = t.op
                  /\ state' = t.next
                  /\ tp' = tp + 1
                  /\ UNCHANGED <<pc, tb, nalloc, emitted, rock>>
    /\ UNCHANGED <<inputs, text, heap, ret, pargc, pargv>>

\* fail: free_token_buffer(&tb); return code;
TokenizeBytes_return ==
    /\ \/ pc = "fail"
       \/ pc = "scan" /\ state \in {"STATE_END", "STATE_ERROR"}
    /\ tb' = NULLPTR
    /\ pc' = "returned"
    /\ UNCHANGED <<inputs, text, state, tp, code, rock, nalloc, emitted, heap,
                   ret, pargc, pargv>>

\* n times the character ch.
Run(ch, n) == [i \in 1..n |-> ch]

\* The lengths at which the buffer is full, and those next to them.
GrowthLengths ==
    {2 ^ j + d : j \in 7..(SizeBits - 1), d \in {-2, -1, 0, 1}}

\* What the lines start with, before the long run of one character, and
\* what follows the run.
LinePrefixes == {<<>>, <<"b", SP>>, <<DQ>>}
LineTails ==
    { <<>>, <<SP>>, <<SP, "b">>, <<DQ, SP, "b", "b", LF, "a">>,
      <<BS, SP, "b", SP>>, <<SQ, SQ, SP, SQ>> }

\* The lines of the runs in which the token buffer grows, or nearly does.
LongTexts ==
    {p \o Run("a", n) \o t :
        p \in LinePrefixes, n \in GrowthLengths \cup {0, 1}, t \in LineTails}

\* The runs of cmd_Tokenize with a long line: the callback, and the
\* allocation that fails, if any.
GrowScenarios ==
    [text : LongTexts, emit : {"callback"},
     fault : {NoFault} \cup [kind : {"alloc"}, at : 1..MaxGrowFaultAt]]
    \cup [text : LongTexts, emit : {"NULL"}, fault : {NoFault}]

GrowInit ==
    /\ GetlineIdle
    /\ BozoIdle
    /\ \E s \in GrowScenarios :
          /\ text = s.text
          /\ emit = s.emit
          /\ fault = s.fault
    /\ entry = "cmd_Tokenize"
    /\ argv_in = <<>>
    /\ pc = "tokenize"
    /\ state = "STATE_DELIM"
    /\ tp = 1
    /\ tb = NULLPTR
    /\ code = SUCCESS
    /\ rock = [count |-> 0, q |-> <<>>]
    /\ nalloc = 0
    /\ emitted = <<>>
    /\ heap = <<>>
    /\ ret = "pending"
    /\ pargc = 0
    /\ pargv = NULLPTR

GrowNext ==
    \/ TokenizeBytes_init /\ UNCHANGED <<glvars, bzvars>>
    \/ TokenizeBytes_step /\ UNCHANGED <<glvars, bzvars>>
    \/ TokenizeBytes_return /\ UNCHANGED <<glvars, bzvars>>

SpecGrow == GrowInit /\ [][GrowNext]_vars

(***************************************************************************)
(* C31.  The growth of the token buffer.                                   *)
(***************************************************************************)
\* The loop of cmd_Tokenize is about to read an ordinary character, which
\* every state of the lexer accepts into the token.
AtOrdinaryChar ==
    /\ pc = "scan"
    /\ state \notin {"STATE_END", "STATE_ERROR"}
    /\ Cur \in {"a", "b"}

\* The token fills the buffer up to its last byte.
BufferFull == tb[1].token_end + 1 = tb[1].buffer_size

\* Twice the size of the buffer does not fit the size type.
DoubleOverflows == 2 * tb[1].buffer_size >= 2 ^ SizeBits

\* C31, the step: when a character is accepted and the buffer is full, the
\* size of the buffer is doubled and the character stored after the token;
\* when the doubled size overflows or the reallocation fails, the code is
\* ENOMEM and the buffer, its size and the token are as before; when the
\* buffer is not full, its size stays.  After the failure cmd_Tokenize
\* returns the code.
C31_Step ==
    /\ AtOrdinaryChar =>
        IF BufferFull /\ (DoubleOverflows \/ ~AllocOk(nalloc + 1))
        THEN /\ pc' = "fail"
             /\ code' = ENOMEM
             /\ tb' = tb
        ELSE /\ pc' = "scan"
             /\ code' = code
             /\ tb'[1].buffer_size =
                    IF BufferFull THEN 2 * tb[1].buffer_size
                    ELSE tb[1].buffer_size
             /\ Len(tb'[1].bytes) = tb'[1].buffer_size
             /\ tb'[1].token_end = tb[1].token_end + 1
             /\ tb'[1].bytes[tb[1].token_end + 1] = Cur
             /\ \A i \in 1..tb[1].token_end :
                    tb'[1].bytes[i] = tb[1].bytes[i]
    /\ pc = "fail" => pc' = "returned" /\ code' = code

\* C31: accept_char doubles a full buffer, and fails with ENOMEM, changing
\* nothing, when it cannot.
C31_Growth == [][C31_Step]_vars

\* The token filled the buffer of twice the initial size, doubling that
\* size overflowed, and cmd_Tokenize returned ENOMEM although no allocation
\* failed.
C31_Witness ==
    /\ entry = "cmd_Tokenize"
    /\ pc = "returned"
    /\ code = ENOMEM
    /\ fault = NoFault
    /\ tp <= Len(text)
    /\ \A i \in 1..tp : text[i] = "a"
    /\ 2 * tp = 2 ^ SizeBits

\* The reallocation of a full buffer failed: cmd_Tokenize is about to
\* return ENOMEM, with the token and the buffer as they were.
C31_ReallocFailed ==
    /\ pc = "fail"
    /\ code = ENOMEM
    /\ fault.kind = "alloc"
    /\ tb # NULLPTR
    /\ tb[1].token_end + 1 = tb[1].buffer_size
    /\ tb[1].buffer_size = TOKEN_BUFFER_INITIAL_SIZE
    /\ Cur = "a"

\* The buffer has grown: it has twice the initial size and holds a token
\* longer than the initial size.
C31_Grown ==
    /\ pc = "scan"
    /\ tb[1].buffer_size = 2 * TOKEN_BUFFER_INITIAL_SIZE
    /\ tb[1].token_end > TOKEN_BUFFER_INITIAL_SIZE

(***************************************************************************)
(* C32: the terminating conditions of cmd_Tokenize.                        *)
(***************************************************************************)
\* C32, the step: an iteration ends the scan only in one of four ways: in
\* STATE_END on reading the end of the line between tokens or in a bare
\* token, in STATE_ERROR with CMD_BADFORMAT on reading the end of the line
\* inside a quoted segment or directly after a backslash, or by goto fail
\* with ENOMEM or the non-zero code of emit.
C32_Step ==
    pc = "scan" /\ state \notin {"STATE_END", "STATE_ERROR"} =>
        /\ state' = "STATE_END" =>
              Cur = NUL /\ state \in {"STATE_DELIM", "STATE_BARE"}
        /\ state' = "STATE_ERROR" =>
              /\ Cur = NUL
              /\ state \in {"STATE_SQUOTE", "STATE_DQUOTE", "STATE_ESC",
                            "STATE_QESC"}
              /\ code' = CMD_BADFORMAT
        /\ pc' = "fail" =>
              \/ code' = ENOMEM /\ fault.kind = "alloc" /\ nalloc' >= fault.at
              \/ code' = EMIT_FAILED /\ fault.kind = "emit"
                    /\ Len(emitted') = fault.at

\* C32, the result: the lexer state is always one of the enumerated states
\* and the code is never CMD_INTERNALERROR; when cmd_Tokenize has returned
\* and no allocation and no call of emit failed, it returned 0 if the line
\* ends outside quotes and not directly after a backslash, and CMD_BADFORMAT
\* otherwise; a code other than these two is ENOMEM after a failed allocation
\* or the code of emit after a failed call.
C32_Result ==
    /\ state \in States
    /\ code # CMD_INTERNALERROR
    /\ pc = "scan" /\ state # "STATE_ERROR" => code = SUCCESS
    /\ Returned /\ ~FaultHit =>
          /\ EndCtx(text) = "plain" => code = SUCCESS
          /\ EndCtx(text) # "plain" => code = CMD_BADFORMAT
    /\ Returned /\ code \notin {SUCCESS, CMD_BADFORMAT} =>
          /\ FaultHit
          /\ code = IF fault.kind = "alloc" THEN ENOMEM ELSE EMIT_FAILED

\* C32: cmd_Tokenize ends with success, CMD_BADFORMAT or resource exhaustion
\* only, and a well-formed line returns 0 when nothing fails.
C32_TerminatingConditions == []C32_Result /\ [][C32_Step]_vars

\* cmd_Tokenize has returned 0 from a line with a double-quoted segment that
\* holds an escaped character, with no failure planned, after one token.
C32_Witness ==
    /\ Returned
    /\ entry = "cmd_Tokenize"
    /\ fault = NoFault
    /\ \E i \in 1..Len(text) : Ctx(text, i) = "qesc"
    /\ EndCtx(text) = "plain"
    /\ Len(emitted) = 1
    /\ code = SUCCESS

(***************************************************************************)
(* C33.  The invariant of the token buffer.                                *)
(***************************************************************************)
\* The token the buffer b holds: the bytes from token_start to token_end.
TokenIn(b) == SubSeq(b.bytes, 1, b.token_end)

\* C33, the state: while cmd_Tokenize holds its buffer, the token is shorter
\* than the buffer (so the assertions of accept_char hold and no strdup
\* runs past the buffer), the bytes of the token are characters of the line,
\* and every byte from token_end to the end of the buffer is zero.
C33_Buffer ==
    /\ pc \notin {"abort", "overrun"}
    /\ pc \in {"scan", "fail"} =>
          /\ tb # NULLPTR
          /\ tb[1].buffer_size > 0
          /\ 0 <= tb[1].token_end
          /\ tb[1].token_end < tb[1].buffer_size
          /\ Len(tb[1].bytes) = tb[1].buffer_size
          /\ \A i \in 1..tb[1].buffer_size :
                IF i <= tb[1].token_end
                THEN tb[1].bytes[i] \notin {NUL, GARBAGE}
                ELSE tb[1].bytes[i] = NUL
    /\ pc = "scan" /\ tp = 1 => tb[1].token_end = 0

\* C33, the step: an iteration leaves the token as it is, appends the
\* character read to it, or clears it.  An ordinary character is appended.
\* The string handed to emit is the token, and emit is called in STATE_BARE
\* only, at whitespace or at the end of the line.  The token is cleared only
\* at whitespace that ends a bare token, and then the whole buffer is zero.
C33_Step ==
    pc = "scan" /\ pc' = "scan" =>
        /\ \/ TokenIn(tb'[1]) = TokenIn(tb[1])
           \/ TokenIn(tb'[1]) = Append(TokenIn(tb[1]), Cur)
           \/ tb'[1].token_end = 0
        /\ Cur \in {"a", "b"} =>
              /\ TokenIn(tb'[1]) = Append(TokenIn(tb[1]), Cur)
              /\ emitted' = emitted
        /\ emitted' # emitted =>
              /\ emitted' = Append(emitted, TokenIn(tb[1]))
              /\ state = "STATE_BARE"
              /\ Cur \in Whitespace \cup {NUL}
        /\ state = "STATE_BARE" /\ Cur \in Whitespace =>
              /\ emit # "NULL" => emitted' = Append(emitted, TokenIn(tb[1]))
              /\ tb'[1].token_end = 0
              /\ tb'[1].buffer_size = tb[1].buffer_size
              /\ \A i \in 1..tb[1].buffer_size : tb'[1].bytes[i] = NUL
        /\ ~(state = "STATE_BARE" /\ Cur \in Whitespace) =>
              tb'[1].token_end >= tb[1].token_end

\* C33: the token buffer holds the characters accepted since it was last
\* cleared, followed by zero bytes up to its end.
C33_TokenBuffer == []C33_Buffer /\ [][C33_Step]_vars

\* The scan has ended after a first token that made the buffer grow and a
\* second token of one character, read into the cleared buffer.
C33_Witness ==
    /\ pc = "scan"
    /\ state = "STATE_END"
    /\ tb[1].buffer_size = 2 * TOKEN_BUFFER_INITIAL_SIZE
    /\ Len(emitted) = 2
    /\ Len(emitted[1]) >= TOKEN_BUFFER_INITIAL_SIZE
    /\ emitted[2] = <<"b">>
    /\ TokenIn(tb[1]) = <<"b">>

(***************************************************************************)
(* C34.  The scan reads each character once and stops at the NUL.          *)
(***************************************************************************)
Terminal == {"STATE_END", "STATE_ERROR"}

\* C34, the state: the line holds no NUL before its end; the character the
\* loop reads next is one of the line or its terminating NUL, and the loop
\* has stopped exactly when the NUL was the last character read.  So the
\* loop makes at most Len(text) + 1 iterations.
C34_Bound ==
    /\ ~Has(text, NUL)
    /\ pc \in {"scan", "fail"} =>
          /\ 1 <= tp
          /\ state \notin Terminal => tp <= Len(text) + 1
          /\ state \in Terminal => tp = Len(text) + 2

\* C34, the step: an iteration reads the character at tp and either goes on
\* with the next character or leaves the loop by goto fail; on reading the
\* NUL it ends the scan, in STATE_END from STATE_DELIM and STATE_BARE and in
\* STATE_ERROR from the other states; no other character ends it.  Once the
\* state is terminal no iteration follows, and the scan is not entered again.
C34_Step ==
    /\ pc = "scan" /\ state \notin Terminal =>
          /\ pc' \in {"scan", "fail"}
          /\ pc' = "scan" => tp' = tp + 1
          /\ pc' = "fail" => tp' = tp /\ state' = state
          /\ Cur = NUL /\ pc' = "scan" =>
                state' = IF state \in {"STATE_DELIM", "STATE_BARE"}
                         THEN "STATE_END" ELSE "STATE_ERROR"
          /\ Cur # NUL => state' \notin Terminal
    /\ pc = "scan" /\ state \in Terminal => pc' # "scan" /\ tp' = tp
    /\ pc \notin {"scan", "tokenize"} => pc' # "scan" /\ tp' = tp

\* C34: cmd_Tokenize consumes one character per iteration and stops at the
\* terminating NUL.
C34_Termination == []C34_Bound /\ [][C34_Step]_vars

\* The scan of a line of the greatest length has stopped in STATE_END, the
\* NUL being the last character read, after four iterations that each
\* stored a character and a fifth that emitted the token.
C34_Witness ==
    /\ pc = "scan"
    /\ state = "STATE_END"
    /\ Len(text) = MaxLen
    /\ tp = MaxLen + 2
    /\ emitted = <<text>>

(***************************************************************************)
(* C35.  The writes of afs_getdelim and the bounds of the buffer.          *)
(***************************************************************************)
\* Between calls, the caller's *buf and *bufsiz describe the allocation:
\* the buffer, when there is one, has *bufsiz bytes.
C35_Allocation ==
    gl_pc = "idle" /\ buf # NULLPTR /\ calls # <<>> => Len(buf[1]) = bufsiz

\* A write outside the buffer happens only while the buffer has one or two
\* bytes, at the first or second byte of a line.
C35_OnlySmall ==
    [][~oob /\ oob' => bufsiz <= 2 /\ ptr <= 1 /\ ptr' = bufsiz]_glvars

\* C35: afs_getdelim never writes outside the buffer: whatever buffer and
\* size the caller supplies (a buffer of 1 or 2 bytes included) and whatever
\* the stream holds, every stored character and the terminating NUL are
\* written at an index below *bufsiz, and on return *buf and *bufsiz
\* describe the current allocation.
C35_InBounds ==
    /\ ~oob
    /\ C35_Allocation

\* afs_getdelim returned a line of one character, the delimiter, read into
\* the caller's buffer of one byte: the terminating NUL was written at
\* index 1, behind the buffer.
C35_Overrun ==
    /\ gl_pc = "idle"
    /\ oob
    /\ bufsiz = 1
    /\ Len(calls) = 1
    /\ calls[1].length = 1
    /\ fp.data[1] = delimiter

(***************************************************************************)
(* C36.  The parser state and the bnode_info under construction.           *)
(***************************************************************************)
\* The parser ReadBozoFile calls for the line it is about to read.
ParserCalled ==
    MatchingParser(parsers, bz_state, Chomp(TheFile[bz_line])).parse

\* C36, the state: at every line boundary the state is 1 exactly when a
\* bnode_info exists, which is exactly when the line follows a bnode line
\* with no end line in between; the allocations alive are those of the
\* bnode_info; after every return of ReadBozoFile there is no bnode_info
\* and no allocation of the parsers is alive.
C36_Boundary ==
    /\ bz_pc = "reading" =>
          /\ bz_state \in {0, 1}
          /\ bz_state = 1 <=> bnode_info # NULLPTR
          /\ bz_state = 1 <=> InBlock(TheFile, bz_line)
          /\ bz_live = FreeCount(bnode_info)
    /\ bz_pc = "returned" => bnode_info = NULLPTR /\ bz_live = 0

\* C36, the step: parse_bnode is called only without a bnode_info, and
\* parse_parm and parse_end only with one, so their checks for an unexpected
\* tag do not fire; a bnode line inside a block and a parm or end line
\* outside one go to invalid_tag and make ReadBozoFile return BZSYNTAX; and
\* every return of ReadBozoFile frees the bnode_info.
C36_Step ==
    /\ bz_pc = "reading" /\ bz_line <= Len(TheFile) =>
          LET tag == TagOf(Chomp(TheFile[bz_line]))
          IN  /\ ParserCalled = "parse_bnode" => bnode_info = NULLPTR
              /\ ParserCalled \in {"parse_parm", "parse_end"} =>
                    bnode_info # NULLPTR
              /\ \/ tag = "bnode" /\ bnode_info # NULLPTR
                 \/ tag \in {"parm", "end"} /\ bnode_info = NULLPTR
                 => /\ ParserCalled = "invalid_tag"
                    /\ bz_pc' = "returned"
                    /\ bz_code' = BZSYNTAX
                    /\ allBnodes' = allBnodes
    /\ bz_pc \in {"read", "reading"} /\ bz_pc' = "returned" =>
          bnode_info' = NULLPTR /\ bz_live' = 0

\* C36: state is 1 if and only if bnode_info is not NULL, the defensive
\* checks of the parsers are dead, and bnode_info is freed on every return.
C36_StateAndInfo == []C36_Boundary /\ [][C36_Step]_bzvars

\* ReadBozoFile returned BZSYNTAX at a bnode line inside the block of
\* another bnode line, which had two parameters: the bnode_info of that
\* block was freed on the way out.
C36_Witness ==
    /\ bz_pc = "returned"
    /\ bz_code = BZSYNTAX
    /\ bz_fs.target # NULLPTR
    /\ bz_line <= Len(TheFile)
    /\ TagOf(Chomp(TheFile[bz_line])) = "bnode"
    /\ InBlock(TheFile, bz_line)
    /\ bz_nalloc >= 4
    /\ bz_live = 0
    /\ bnode_info = NULLPTR

(***************************************************************************)
(* C37.  WriteBozoFile replaces the file atomically.                       *)
(***************************************************************************)
\* The call of WriteBozoFile met a failure: the fopen of the temporary
\* file, a write (seen by ferror), a bnode callback (with at least one
\* bnode to call it for), the fclose or the rename.
WriteFailed ==
    \/ bz_fault.kind \in {"wfopen", "ferror", "fclose", "rename"}
    \/ bz_fault.kind = "getparm" /\ Len(bz_before[1].bnodes) > 0

\* C37, the step: WriteBozoFile changes no global and no bnode, and leaves
\* no temporary file.
C37_Step ==
    bz_pc' = "written" /\ bz_pc # "written" =>
        /\ bz_fs'.nbz = NULLPTR
        /\ bozo_isrestricted' = bozo_isrestricted
        /\ bozo_nextRestartKT' = bozo_nextRestartKT
        /\ bozo_nextDayKT' = bozo_nextDayKT
        /\ allBnodes' = allBnodes
        /\ bz_before'[1].target = bz_fs.target

\* C37, the result: from the call on, also when the server has restarted,
\* there is no temporary file; a call that met a failure returned non-zero
\* and the target is the file of before the call (or is still missing); a
\* call that met none returned 0 and the target is the complete file of
\* the globals and bnodes.
C37_Result ==
    bz_before # NULLPTR =>
        /\ bz_fs.nbz = NULLPTR
        /\ bz_pc = "written" => (bz_code # SUCCESS <=> WriteFailed)
        /\ WriteFailed => bz_fs.target = bz_before[1].target
        /\ ~WriteFailed =>
              /\ bz_fs.target # NULLPTR
              /\ IsBozoFile(bz_fs.target[1], bz_before[1])

ParmsOf(bnode) == SubSeq(bnode.args, 1, ParmsSet(bnode))

\* The in-memory state WriteBozoFile wrote, and the state now.
Written == bz_before[1]
Now ==
    [isrestricted |-> bozo_isrestricted, restartKT |-> bozo_nextRestartKT,
     dayKT |-> bozo_nextDayKT, bnodes |-> allBnodes]

\* WriteBozoFile returned 0, the server was started again, and ReadBozoFile
\* has returned from reading the file; nothing was made to fail.
ReadBack ==
    /\ bz_rounds = 1
    /\ bz_pc = "returned"
    /\ bz_before # NULLPTR
    /\ bz_fault = NoBzFault

\* The bnodes of the state s are those of the state g, in order, with the
\* parameters p gives for each.
SameBnodes(s, g, p(_)) ==
    /\ Len(s.bnodes) = Len(g.bnodes)
    /\ \A i \in 1..Len(g.bnodes) :
          /\ s.bnodes[i].type = g.bnodes[i].type
          /\ s.bnodes[i].name = g.bnodes[i].name
          /\ s.bnodes[i].fileGoal = g.bnodes[i].fileGoal
          /\ s.bnodes[i].notifier = g.bnodes[i].notifier
          /\ p(s.bnodes[i]) = p(g.bnodes[i])

AllArgs(bnode) == bnode.args

\* The time has the fields of a time of the week.
InRange(t) ==
    /\ t.day \in 0..6
    /\ t.hour \in 0..23
    /\ t.min \in 0..59
    /\ t.sec \in 0..59

\* The restricted flag is 0 or 1 and the two times are times of the week.
ValidGlobals(g) ==
    /\ g.isrestricted \in {0, 1}
    /\ InRange(g.restartKT)
    /\ InRange(g.dayKT)

C38_ParameterLost ==
    /\ ReadBack
    /\ bz_code = SUCCESS
    /\ Len(allBnodes) = 1
    /\ Written.bnodes[1].args[3] # NULLPTR
    /\ allBnodes[1].args[3] = NULLPTR

\* A state whose restricted flag is -1 was written: ReadBozoFile does not
\* accept the file.
C38_FlagRejected ==
    /\ ReadBack
    /\ Written.isrestricted = -1
    /\ bz_code = BZSYNTAX

(***************************************************************************)
(* C39.  Empty lines, and the last line without a newline.                 *)
(***************************************************************************)
\* ReadBozoFile is about to read a line of the file.
AtLine == bz_pc = "reading" /\ bz_line <= Len(TheFile)

\* The line about to be read is the last of the file and does not end in
\* a newline.
AtUnterminatedLine ==
    /\ AtLine
    /\ bz_line = Len(TheFile)
    /\ TheFile[bz_line][Len(TheFile[bz_line])] # LF

\* The step returns BZSYNTAX and changes no global and no bnode.
SyntaxError ==
    /\ bz_pc' = "returned"
    /\ bz_code' = BZSYNTAX
    /\ bozo_isrestricted' = bozo_isrestricted
    /\ bozo_nextRestartKT' = bozo_nextRestartKT
    /\ bozo_nextDayKT' = bozo_nextDayKT
    /\ allBnodes' = allBnodes
    /\ bnode_calls' = bnode_calls

\* C39, the step: a line that is empty, or starts with no tag, goes to
\* invalid_tag and makes ReadBozoFile return BZSYNTAX, outside and inside a
\* block.  A last line without a newline is given to its parser whole: a
\* valid restrictmode, restarttime or checkbintime line sets its global to
\* the value of the text up to the last character, and the line 'end'
\* closes the block with the call of bnode_Create.
C39_Step ==
    /\ AtLine /\ TagOf(Chomp(TheFile[bz_line])) = "none" =>
          /\ ParserCalled = "invalid_tag"
          /\ SyntaxError
    /\ AtLine /\ TheFile[bz_line] = <<LF>> =>
          /\ TagOf(Chomp(TheFile[bz_line])) = "none"
          /\ SyntaxError
    /\ AtUnterminatedLine =>
          LET ln == TheFile[bz_line]
              tag == TagOf(ln)
              inside == InBlock(TheFile, bz_line)
          IN  /\ (tag = "restrictmode" /\ ~inside
                    /\ ValidBool(From(ln, Len(TAG_restrictmode)))) =>
                    /\ bz_pc' = "reading"
                    /\ bozo_isrestricted' =
                          NumberOf(Field(From(ln, Len(TAG_restrictmode)), 1))
              /\ (tag = "restarttime" /\ ~inside
                    /\ ValidKtime(From(ln, Len(TAG_restarttime)))) =>
                    /\ bz_pc' = "reading"
                    /\ bozo_nextRestartKT' =
                          KtimeOf(From(ln, Len(TAG_restarttime)))
              /\ (tag = "checkbintime" /\ ~inside
                    /\ ValidKtime(From(ln, Len(TAG_checkbintime)))) =>
                    /\ bz_pc' = "reading"
                    /\ bozo_nextDayKT' =
                          KtimeOf(From(ln, Len(TAG_checkbintime)))
              /\ (ln = TAG_end /\ inside) =>
                    /\ Len(bnode_calls') > Len(bnode_calls)
                    /\ bnode_calls'[Len(bnode_calls) + 1].op = "bnode_Create"
                    /\ bnode_calls'[Len(bnode_calls) + 1].code =
                          BlockCode(TheFile, bz_line)
                    /\ bz_pc' = "reading" <=>
                          BlockCode(TheFile, bz_line) = SUCCESS
              /\ (tag = "none" \/ (inside <=> tag \notin {"parm", "end"})) =>
                    SyntaxError

\* C39: an empty line is a syntax error, and the last line needs no
\* newline.
C39_NoBlankLines == [][C39_Step]_bzvars

\* ReadBozoFile returned BZSYNTAX at an empty line inside a block, after
\* the bnode line and two parm lines and before the end line.
C39_Witness ==
    /\ bz_pc = "returned"
    /\ bz_code = BZSYNTAX
    /\ bz_fs.target # NULLPTR
    /\ Len(TheFile) = 5
    /\ bz_line = 4
    /\ TheFile[4] = <<LF>>
    /\ InBlock(TheFile, 4)
    /\ TheFile[5] = TAG_end \o <<LF>>
    /\ allBnodes = <<>>

\* ReadBozoFile returned BZSYNTAX at an empty first line.
C39_EmptyFirstLine ==
    /\ bz_pc = "returned"
    /\ bz_code = BZSYNTAX
    /\ bz_fs.target # NULLPTR
    /\ Len(TheFile) = 2
    /\ bz_line = 1
    /\ TheFile[1] = <<LF>>

\* ReadBozoFile returned 0 from a file whose last line, 'end' without a
\* newline, closed a block with two parameters.
C39_LastLine ==
    /\ bz_pc = "returned"
    /\ bz_code = SUCCESS
    /\ bz_rounds = 0
    /\ bz_fs.target # NULLPTR
    /\ Len(TheFile) = 4
    /\ TheFile[4] = TAG_end
    /\ Len(allBnodes) = 1

(***************************************************************************)
(* C40.  The lines before the failing line stay in effect.                 *)
(***************************************************************************)
\* The lines before line k that start with the tag.
TagLines(file, tag, k) ==
    {j \in 1..(k - 1) : j <= Len(file) /\ TagOf(Chomp(file[j])) = tag}

\* The last of a non-empty set of lines.
LastOf(S) == CHOOSE j \in S : \A i \in S : i <= j

\* The text after the tag of line j.
Setting(file, j, tag) == From(Chomp(file[j]), Len(tag))

\* C40, the state: while ReadBozoFile reads and after it has returned, at
\* line k (the next line, the line of the error, or the end of the file),
\* the effects are exactly those of the lines 1..k-1: one bnode for each
\* end line among them, in file order, with the name of its block and its
\* status set to its goal, and each global with the value of the last
\* line of its tag among them, or untouched when there is none.
C40_Result ==
    bz_pc \in {"reading", "returned"} /\ bz_fs.target # NULLPTR
    /\ bz_fault.kind # "fopen" =>
        LET ends == EndLines(TheFile, bz_line - 1)
            rm == TagLines(TheFile, "restrictmode", bz_line)
            rt == TagLines(TheFile, "restarttime", bz_line)
            ct == TagLines(TheFile, "checkbintime", bz_line)
        IN  /\ bz_line <= Len(TheFile) + 1
            /\ bz_pc = "returned" /\ bz_code = SUCCESS =>
                  bz_line = Len(TheFile) + 1
            /\ Len(allBnodes) = Cardinality(ends)
            /\ \A e \in ends :
                  LET i == Cardinality({x \in ends : x <= e})
                  IN  /\ allBnodes[i].name = BlockArgs(TheFile, e).instance
                      /\ allBnodes[i].status = allBnodes[i].fileGoal
            /\ IF rm = {} THEN bozo_isrestricted = -1
               ELSE bozo_isrestricted =
                      NumberOf(Field(Setting(TheFile, LastOf(rm),
                                             TAG_restrictmode), 1))
            /\ IF rt = {} THEN bozo_nextRestartKT = KtimeAll(-1)
               ELSE LET t == Setting(TheFile, LastOf(rt), TAG_restarttime)
                    IN  ValidKtime(t) => bozo_nextRestartKT = KtimeOf(t)
            /\ IF ct = {} THEN bozo_nextDayKT = KtimeAll(-1)
               ELSE LET t == Setting(TheFile, LastOf(ct), TAG_checkbintime)
                    IN  ValidKtime(t) => bozo_nextDayKT = KtimeOf(t)

\* C40, the step: a line that is accepted moves ReadBozoFile to the next
\* line; a line that fails makes it return the error at that line with the
\* globals and the bnodes as the lines before left them; after the return
\* no line is read and nothing changes.
C40_Step ==
    /\ AtLine =>
          /\ bz_pc' = "reading" => bz_line' = bz_line + 1
          /\ bz_pc' = "returned" =>
                /\ bz_code' # SUCCESS
                /\ bz_line' = bz_line
                /\ allBnodes' = allBnodes
                /\ bozo_isrestricted' = bozo_isrestricted
                /\ bozo_nextRestartKT' = bozo_nextRestartKT
                /\ bozo_nextDayKT' = bozo_nextDayKT
    /\ bz_pc = "returned" =>
          /\ bz_pc' # "reading"
          /\ bz_line' = bz_line
          /\ allBnodes' = allBnodes
          /\ bozo_isrestricted' = bozo_isrestricted
          /\ bozo_nextRestartKT' = bozo_nextRestartKT
          /\ bozo_nextDayKT' = bozo_nextDayKT

\* C40: ReadBozoFile stops at the first line that fails and keeps what the
\* lines before it did.
C40_NoRollback == []C40_Result /\ [][C40_Step]_bzvars

\* ReadBozoFile returned BZSYNTAX at the last line, an end line outside a
\* block: the bnode of the block before it exists, with its status set.
C40_Witness ==
    /\ bz_pc = "returned"
    /\ bz_code = BZSYNTAX
    /\ bz_fs.target # NULLPTR
    /\ bz_line = Len(TheFile)
    /\ Chomp(TheFile[bz_line]) = TAG_end
    /\ ~InBlock(TheFile, bz_line)
    /\ Len(allBnodes) = 1
    /\ allBnodes[1].status = BSTAT_NORMAL
    /\ bozo_isrestricted = -1

\* ReadBozoFile returned BZSYNTAX at the second line, a restarttime line
\* with the day 7: the restricted flag set by the first line is in effect
\* and the restart time is untouched.
C40_SettingKept ==
    /\ bz_pc = "returned"
    /\ bz_code = BZSYNTAX
    /\ bz_fs.target # NULLPTR
    /\ bz_line = 2
    /\ Len(TheFile) >= 2
    /\ TagOf(Chomp(TheFile[2])) = "restarttime"
    /\ bozo_isrestricted = 1
    /\ bozo_nextRestartKT = KtimeAll(-1)
=============================================================================
